---- MODULE Spec2Model ----
(***************************************************************************)
(* A model of the traefik quota plugin: the token-bucket rate limiter      *)
(* (rate_limiter.go), the fixed-window quota counter (quota_manager.go),   *)
(* the key/period helpers and the store commands (redis_client.go) and the *)
(* middleware entry point (quota.go).                                      *)
(*                                                                         *)
(* Time is the wall clock in quarters of a second, and a time.Duration is  *)
(* a number of quarter seconds.  A float64 token count is the exact        *)
(* rational Tokens / RefillPeriod: the model keeps the numerator, so that  *)
(* rate * elapsed / period is computed without rounding.                   *)
(***************************************************************************)
EXTENDS Integers, Sequences, FiniteSets, TLC

(***************************************************************************)
(* Bounds of the model.                                                    *)
(***************************************************************************)
\* time.Second in the time unit of the model (a quarter of a second).
Second == 4

\* Clock step of the limiter specifications, in time units.
TickLen == 1
\* Number of clock steps a behaviour may take.
MaxTicks == 8
\* Largest rate and burst of the limiter configurations explored.
MaxRate == 2
MaxBurst == 2
\* Largest number of consecutive Allow calls recorded at one instant.
MaxCalls == 4
\* Largest n passed to AllowN.
MaxN == 2

\* Refill periods explored: a quarter, a half, three quarters of a second and
\* a whole second, so that 2 x period is 0, 1, 1 and 2 whole seconds.
PeriodChoices == {1, 2, 3, 4}

\* The identifier the limiter specifications call the limiter with.
LimiterId == "u1"

VARIABLES
  now,      \* wall clock
  store,    \* the backing store: key -> [val, exp]; exp is an absolute time
  cfg,      \* the RateLimitConfig of the limiter under test
  last,     \* the last operation, its result and the tokens it saw after refill
  rapid,    \* the run of consecutive Allow calls at the current instant
  recent,   \* the Allowed results of the last `period`: [at, recreated]
  expired,  \* the bucket's keys have expired at least once
  rules,    \* the configured rule list (Config.Identifiers)
  resp,     \* what the last request got
  deniedUntil, \* identifier -> reset time reported by its latest quota denial
  faults,   \* the store commands that fail at present
  tasks,    \* the request tasks that run concurrently, each with its position
  held,     \* the tokens stored when the concurrent Allow calls began
  conn      \* the client's connection: its construction or its reply stream

vars == <<now, store, cfg, last, rapid, recent, expired, rules, resp, deniedUntil, faults,
          tasks, held, conn>>

concurrentVars == <<tasks, held, conn>>

limiterVars == <<cfg, last, rapid, recent, expired>>

middlewareVars == <<rules, resp, deniedUntil, faults>>

\* The element of a one-element set: The({F(x) : x \in {e}}) is F(e) with e
\* evaluated once.
The(S) == CHOOSE x \in S : TRUE

Min(a, b) == IF a <= b THEN a ELSE b
Max(a, b) == IF a >= b THEN a ELSE b

(***************************************************************************)
(* The store (the server side of the commands of redis_client.go).         *)
(***************************************************************************)
NoExpiry == -1

EmptyStore == [k \in {} |-> [val |-> 0, exp |-> NoExpiry]]

\* A key exists at time t when it was written and has not expired.
Live(s, k, t) == k \in DOMAIN s /\ (s[k].exp = NoExpiry \/ t < s[k].exp)

\* The store at time t with its expired keys dropped.
Purge(s, t) == [k \in {j \in DOMAIN s : Live(s, j, t)} |-> s[k]]

Put(s, k, e) == [j \in DOMAIN s \cup {k} |-> IF j = k THEN e ELSE s[j]]

Del(s, k) == [j \in DOMAIN s \ {k} |-> s[j]]

\* int(expiration.Seconds()): whole seconds, fraction dropped.
WholeSeconds(d) == d \div Second

\* GET: the value, or the "key not found" error.
\* A command in `faults` returns an error to its caller (an error reply or
\* an I/O error on the connection) and has no effect on the store; a command
\* named with "-lost" takes effect in the store and then returns an error
\* (its reply is not received).
Fails(command) == command \in faults

Lost(command) == (command \o "-lost") \in faults

Get(s, k, t) ==
  IF Fails("GET") THEN [err |-> TRUE, val |-> 0]
  ELSE IF Live(s, k, t) THEN [err |-> FALSE, val |-> s[k].val]
  ELSE [err |-> TRUE, val |-> 0]

\* Set: SETEX key seconds value when expiration > 0 (the store rejects a
\* time of 0 seconds with an error reply), else SET key value.
Set(s, k, v, expiration, t) ==
  IF expiration > 0
  THEN IF Fails("SETEX") \/ WholeSeconds(expiration) <= 0
       THEN [err |-> TRUE, store |-> s]
       ELSE [err |-> Lost("SETEX"),
             store |-> Put(s, k, [val |-> v, exp |-> t + WholeSeconds(expiration) * Second])]
  ELSE IF Fails("SET") THEN [err |-> TRUE, store |-> s]
  ELSE [err |-> Lost("SET"), store |-> Put(s, k, [val |-> v, exp |-> NoExpiry])]

\* INCRBY: an absent key counts from 0 and is created without expiry.
IncrBy(s, k, amount, t) ==
  LET old == IF Live(s, k, t) THEN s[k] ELSE [val |-> 0, exp |-> NoExpiry]
      new == [val |-> old.val + amount, exp |-> old.exp]
  IN IF Fails("INCRBY") THEN [err |-> TRUE, val |-> 0, store |-> s]
     ELSE IF Lost("INCRBY") THEN [err |-> TRUE, val |-> 0, store |-> Put(s, k, new)]
     ELSE [err |-> FALSE, val |-> new.val, store |-> Put(s, k, new)]

\* EXPIRE key seconds: reply 0 (an error to the caller) when the key does
\* not exist; a time of 0 seconds or less deletes the key at once.
Expire(s, k, expiration, t) ==
  IF Fails("EXPIRE") \/ ~Live(s, k, t) THEN [err |-> TRUE, store |-> s]
  ELSE IF WholeSeconds(expiration) <= 0 THEN [err |-> Lost("EXPIRE"), store |-> Del(s, k)]
  ELSE [err |-> Lost("EXPIRE"),
        store |-> Put(s, k, [val |-> s[k].val, exp |-> t + WholeSeconds(expiration) * Second])]

(***************************************************************************)
(* Keys.                                                                   *)
(***************************************************************************)
\* GetRateLimitKey that leaves the identifier out of the key.
GetRateLimitKeyShared(identifier) == "ratelimit:"

GetRateLimitKey(identifier) == "ratelimit:" \o identifier

GetQuotaKey(identifier, period) == "quota:" \o identifier \o ":" \o period

(***************************************************************************)
(* The token bucket (rate_limiter.go).  c is a RateLimitConfig with the    *)
(* period already parsed: [Enabled, Rate, Burst, Period].                  *)
(***************************************************************************)
createNewBucket(c, t) ==
  [Tokens |-> c.Burst * c.Period, LastRefill |-> t,
   Rate |-> c.Rate, Burst |-> c.Burst, RefillPeriod |-> c.Period]

\* getBucket that makes an empty bucket when the state cannot be read.
getBucketEmptyOnError(s, key, c, t) ==
  LET tok == Get(s, key \o ":tokens", t)
      lr  == Get(s, key \o ":last_refill", t)
  IN IF tok.err \/ lr.err THEN [createNewBucket(c, t) EXCEPT !.Tokens = 0]
     ELSE [Tokens |-> tok.val, LastRefill |-> lr.val,
           Rate |-> c.Rate, Burst |-> c.Burst, RefillPeriod |-> c.Period]

getBucket(s, key, c, t) ==
  LET tok == Get(s, key \o ":tokens", t)
      lr  == Get(s, key \o ":last_refill", t)
  IN IF tok.err THEN createNewBucket(c, t)
     ELSE IF lr.err THEN createNewBucket(c, t)
     ELSE [Tokens |-> tok.val, LastRefill |-> lr.val,
           Rate |-> c.Rate, Burst |-> c.Burst, RefillPeriod |-> c.Period]

\* Tokens is scaled by RefillPeriod: rate * elapsed / period becomes
\* rate * elapsed, and the cap burst becomes burst * period.
refillBucketUncapped(bucket, t) ==
  [bucket EXCEPT !.Tokens = bucket.Tokens + bucket.Rate * (t - bucket.LastRefill),
                 !.LastRefill = t]

\* refillBucket that fills the bucket once a whole period has elapsed.
refillBucketToFull(bucket, t) ==
  [bucket EXCEPT !.Tokens = IF t - bucket.LastRefill >= bucket.RefillPeriod
                            THEN bucket.Burst * bucket.RefillPeriod
                            ELSE Min(bucket.Tokens + bucket.Rate * (t - bucket.LastRefill),
                                     bucket.Burst * bucket.RefillPeriod),
                 !.LastRefill = t]

\* The float64 values NaN and -Inf of Tokens, as numbers no count of tokens
\* takes.
NaN == -1

NegInf == -2

\* refillBucket for RefillPeriod = 0, where Tokens is whole tokens, NaN or
\* NegInf, and not scaled: tokensToAdd is rate * elapsed / 0, which is +Inf,
\* NaN or -Inf as elapsed is positive, zero or negative; math.Min gives NaN
\* when an argument is NaN.
refillZeroPeriod(bucket, t) ==
  IF bucket.Tokens = NaN \/ t = bucket.LastRefill THEN NaN
  ELSE IF t > bucket.LastRefill
    THEN (IF bucket.Tokens = NegInf THEN NaN ELSE bucket.Burst)
  ELSE NegInf

refillBucket(bucket, t) ==
  IF bucket.RefillPeriod = 0
  THEN [bucket EXCEPT !.Tokens = refillZeroPeriod(bucket, t), !.LastRefill = t]
  ELSE [bucket EXCEPT !.Tokens = Min(bucket.Tokens + bucket.Rate * (t - bucket.LastRefill),
                                     bucket.Burst * bucket.RefillPeriod),
                      !.LastRefill = t]

\* saveBucket that reports success and writes nothing.
saveBucketDropped(s, key, bucket, t) == [err |-> FALSE, store |-> s]

saveBucket(s, key, bucket, t) ==
  LET expiration == bucket.RefillPeriod * 2
      r1 == Set(s, key \o ":tokens", bucket.Tokens, expiration, t)
  IN IF r1.err THEN r1
     ELSE Set(r1.store, key \o ":last_refill", bucket.LastRefill, expiration, t)

\* TakeTokens without the test for enough tokens.
TakeTokensUnchecked(s, identifier, c, n, t) ==
  LET key    == GetRateLimitKey(identifier)
      bucket == refillBucket(getBucket(s, key, c, t), t)
      saved  == saveBucket(s, key,
                  [bucket EXCEPT !.Tokens = bucket.Tokens - n * bucket.RefillPeriod], t)
  IN [res |-> IF saved.err THEN "Error" ELSE "Allowed",
      store |-> saved.store, refilled |-> TRUE, tokens |-> bucket.Tokens,
      fresh |-> FALSE]

\* TakeTokens that saves the refilled bucket also when it denies.
TakeTokensSavingDenied(s, identifier, c, n, t) ==
  LET key    == GetRateLimitKey(identifier)
      bucket == refillBucket(getBucket(s, key, c, t), t)
      enough == bucket.Tokens >= n * bucket.RefillPeriod
      saved  == saveBucket(s, key,
                  [bucket EXCEPT !.Tokens = IF enough THEN bucket.Tokens - n * bucket.RefillPeriod
                                            ELSE bucket.Tokens], t)
  IN [res |-> IF ~enough THEN "Denied" ELSE IF saved.err THEN "Error" ELSE "Allowed",
      store |-> saved.store, refilled |-> TRUE, tokens |-> bucket.Tokens,
      fresh |-> FALSE]

\* AllowN(n) for n > 0; Allow is the case n = 1.  The result names the
\* outcome, the store after the call, the tokens seen after the refill and
\* whether getBucket found no stored state (fresh).
TakeTokens(s, identifier, c, n, t) ==
  LET key   == GetRateLimitKey(identifier)
      fresh == ~Live(s, key \o ":tokens", t) \/ ~Live(s, key \o ":last_refill", t)
  IN The({
       IF bucket.Tokens >= n * bucket.RefillPeriod
       THEN The({ [res |-> IF saved.err THEN "Error" ELSE "Allowed",
                   store |-> saved.store, refilled |-> TRUE, tokens |-> bucket.Tokens,
                   fresh |-> fresh] :
                  saved \in {saveBucket(s, key,
                     [bucket EXCEPT !.Tokens = bucket.Tokens - n * bucket.RefillPeriod], t)} })
       ELSE [res |-> "Denied", store |-> s, refilled |-> TRUE, tokens |-> bucket.Tokens,
             fresh |-> fresh] :
       bucket \in {refillBucket(getBucket(s, key, c, t), t)} })

Allow(s, identifier, c, t) == TakeTokens(s, identifier, c, 1, t)

AllowN(s, identifier, c, n, t) ==
  IF n <= 0
  THEN [res |-> "Allowed", store |-> s, refilled |-> FALSE, tokens |-> 0, fresh |-> FALSE]
  ELSE TakeTokens(s, identifier, c, n, t)

GetCurrentTokens(s, identifier, c, t) ==
  refillBucket(getBucket(s, GetRateLimitKey(identifier), c, t), t).Tokens

Reset(s, identifier, c, t) ==
  saveBucket(s, GetRateLimitKey(identifier), createNewBucket(c, t), t)

\* RetryAfter is period / rate when the bucket is not full, else 0.
GetLimitInfo(s, identifier, c, t) ==
  The({ LET timeUntilReset == IF bucket.Tokens < bucket.Burst * bucket.RefillPeriod
                              THEN bucket.RefillPeriod \div bucket.Rate ELSE 0
        IN [Limit |-> bucket.Rate, Burst |-> bucket.Burst,
            Available |-> bucket.Tokens \div bucket.RefillPeriod,
            ResetTime |-> t + timeUntilReset, RetryAfter |-> timeUntilReset,
            tokens |-> bucket.Tokens] :
        bucket \in {refillBucket(getBucket(s, GetRateLimitKey(identifier), c, t), t)} })

(***************************************************************************)
(* The local calendar.  Time 0 is Saturday 2024-06-29 00:00 local time     *)
(* (ISO week 26), so that a Sunday (June 30th) and then a Monday on which  *)
(* the ISO week and the month change (July 1st) follow within two days.    *)
(***************************************************************************)
Day == 86400 * Second

\* weekday as time.Weekday: Sunday = 0 ... Saturday = 6.
Epoch == [year |-> 2024, month |-> 6, day |-> 29, weekday |-> 6, isoWeek |-> 26]

DaysInMonth(year, month) ==
  IF month = 2 THEN (IF year % 4 = 0 /\ (year % 100 # 0 \/ year % 400 = 0) THEN 29 ELSE 28)
  ELSE IF month \in {4, 6, 9, 11} THEN 30 ELSE 31

NextDate(d) ==
  IF d.day < DaysInMonth(d.year, d.month) THEN [d EXCEPT !.day = d.day + 1]
  ELSE IF d.month < 12 THEN [d EXCEPT !.month = d.month + 1, !.day = 1]
  ELSE [year |-> d.year + 1, month |-> 1, day |-> 1]

RECURSIVE AddDays(_, _)
AddDays(d, n) == IF n <= 0 THEN d ELSE AddDays(NextDate(d), n - 1)

DayIndex(t) == t \div Day

\* now.Year(), now.Month(), now.Day()
DateOf(t) == AddDays([year |-> Epoch.year, month |-> Epoch.month, day |-> Epoch.day],
                     DayIndex(t))

\* now.Weekday()
Weekday(t) == (Epoch.weekday + DayIndex(t)) % 7

\* now.ISOWeek(): ISO weeks begin on Monday (valid away from a year boundary).
ISOWeek(t) ==
  [year |-> Epoch.year,
   week |-> Epoch.isoWeek + ((DayIndex(t) + ((Epoch.weekday + 6) % 7)) \div 7)]

\* %02d
Pad2(n) == IF n < 10 THEN "0" \o ToString(n) ELSE ToString(n)

GetQuotaPeriodKey(period, t) ==
  LET d == DateOf(t)
      daily == ToString(d.year) \o "-" \o Pad2(d.month) \o "-" \o Pad2(d.day)
  IN CASE period = "Daily" -> daily
       [] period = "Weekly" -> ToString(ISOWeek(t).year) \o "-W" \o Pad2(ISOWeek(t).week)
       [] period = "Monthly" -> ToString(d.year) \o "-" \o Pad2(d.month)
       [] OTHER -> daily

(***************************************************************************)
(* The quota counter (quota_manager.go).  q is a QuotaSettings:            *)
(* [Enabled, Limit, Period, Code, Body].                                   *)
(***************************************************************************)
\* time.Date(year, month, day + n, 0, ...): midnight n days after today's.
MidnightAfterDays(t, n) == (DayIndex(t) + n) * Day

getNextResetTime(q, t) ==
  LET daysUntilSunday == IF (7 - Weekday(t)) % 7 = 0 THEN 7 ELSE (7 - Weekday(t)) % 7
      d == DateOf(t)
  IN CASE q.Period = "Daily" -> MidnightAfterDays(t, 1)
       [] q.Period = "Weekly" -> MidnightAfterDays(t, daysUntilSunday)
       [] q.Period = "Monthly" ->
            MidnightAfterDays(t, DaysInMonth(d.year, d.month) - d.day + 1)
       [] OTHER -> MidnightAfterDays(t, 1)

DisabledInfo ==
  [Limit |-> 0, Used |-> 0, Remaining |-> 0, Period |-> "Disabled",
   ResetTime |-> 0, ResetIn |-> 0]

GetQuotaInfo(s, identifier, q, t) ==
  IF ~q.Enabled THEN DisabledInfo
  ELSE The({ LET used == IF r.err THEN 0 ELSE r.val
             IN [Limit |-> q.Limit, Used |-> used, Remaining |-> Max(q.Limit - used, 0),
                 Period |-> q.Period, ResetTime |-> resetTime,
                 ResetIn |-> resetTime - t] :
             r \in {Get(s, GetQuotaKey(identifier, GetQuotaPeriodKey(q.Period, t)), t)},
             resetTime \in {getNextResetTime(q, t)} })

\* A nil *QuotaInfo or *RateLimitInfo.
Nil == [nil |-> TRUE]

\* CheckQuota with "exceeded" read as strictly above the limit.
CheckQuotaLax(s, identifier, q, t) ==
  IF ~q.Enabled THEN [allowed |-> TRUE, info |-> Nil]
  ELSE The({ [allowed |-> ~(info.Used > info.Limit), info |-> info] :
             info \in {GetQuotaInfo(s, identifier, q, t)} })

\* CheckQuota that denies when the counter cannot be read.
CheckQuotaFailClosed(s, identifier, q, t) ==
  IF ~q.Enabled THEN [allowed |-> TRUE, info |-> Nil]
  ELSE The({ [allowed |-> ~(info.Used >= info.Limit)
                          /\ ~Get(s, GetQuotaKey(identifier, GetQuotaPeriodKey(q.Period, t)), t).err,
              info |-> info] :
             info \in {GetQuotaInfo(s, identifier, q, t)} })

CheckQuota(s, identifier, q, t) ==
  IF ~q.Enabled THEN [allowed |-> TRUE, info |-> Nil]
  ELSE The({ [allowed |-> ~(info.Used >= info.Limit), info |-> info] :
             info \in {GetQuotaInfo(s, identifier, q, t)} })

\* ConsumeQuota: INCRBY (an error of it is returned at once), then EXPIRE when
\* this call created the key.
ConsumeQuota(s, identifier, q, amount, t) ==
  IF ~q.Enabled THEN [err |-> FALSE, store |-> s, info |-> Nil]
  ELSE LET n == IF amount <= 0 THEN 1 ELSE amount
       IN The({ The({ The({ IF ex.err THEN [err |-> TRUE, store |-> ex.store, info |-> Nil]
                            ELSE [err |-> FALSE, store |-> ex.store,
                                  info |-> GetQuotaInfo(ex.store, identifier, q, t)] :
                            ex \in {IF inc.err THEN [err |-> TRUE, store |-> inc.store]
                                    ELSE IF inc.val = n
                                    THEN Expire(inc.store, key, getNextResetTime(q, t) - t, t)
                                    ELSE [err |-> FALSE, store |-> inc.store]} }) :
                      inc \in {IncrBy(s, key, n, t)} }) :
                key \in {GetQuotaKey(identifier, GetQuotaPeriodKey(q.Period, t))} })

ResetQuota(s, identifier, q, t) ==
  IF ~q.Enabled THEN [err |-> FALSE, store |-> s]
  ELSE Set(s, GetQuotaKey(identifier, GetQuotaPeriodKey(q.Period, t)), 0, 0, t)

SetQuotaUsage(s, identifier, q, usage, t) ==
  IF ~q.Enabled THEN [err |-> FALSE, store |-> s]
  ELSE Set(s, GetQuotaKey(identifier, GetQuotaPeriodKey(q.Period, t)), usage, 0, t)

(***************************************************************************)
(* Strings that the code takes apart are sequences of one-character        *)
(* strings; Str gives the string.                                          *)
(***************************************************************************)
RECURSIVE Str(_)
Str(cs) == IF cs = <<>> THEN "" ELSE Head(cs) \o Str(Tail(cs))

\* strings.LastIndex(cs, c), 1-based; 0 when c does not occur (Go: -1).
LastIndex(cs, c) ==
  LET at == {i \in 1..Len(cs) : cs[i] = c}
  IN IF at = {} THEN 0 ELSE CHOOSE i \in at : \A j \in at : j <= i

\* strings.Split(cs, c)[0]: the text before the first c, all of it without c.
SplitFirst(cs, c) ==
  LET at == {i \in 1..Len(cs) : cs[i] = c}
  IN IF at = {} THEN cs
     ELSE SubSeq(cs, 1, (CHOOSE i \in at : \A j \in at : i <= j) - 1)

\* The characters strings.TrimSpace removes, of those that occur here.
Whitespace == {" ", "\t", "\r", "\n"}

RECURSIVE TrimLeft(_)
TrimLeft(cs) == IF cs # <<>> /\ Head(cs) \in Whitespace THEN TrimLeft(Tail(cs)) ELSE cs

RECURSIVE TrimRight(_)
TrimRight(cs) ==
  IF cs # <<>> /\ cs[Len(cs)] \in Whitespace THEN TrimRight(SubSeq(cs, 1, Len(cs) - 1)) ELSE cs

\* strings.TrimSpace
TrimSpace(cs) == TrimRight(TrimLeft(cs))

(***************************************************************************)
(* The middleware (quota.go).  A request is                                *)
(*   [Headers, XForwardedFor, XRealIP, RemoteAddr, Query, Cookies]:        *)
(* Headers and Query map a name to its value ("" when absent, as Get       *)
(* returns), Cookies maps the names of the cookies present to their        *)
(* values, and the three address fields are character sequences.           *)
(* A rule is an IdentifierConfig [Type, Name, Value, RateLimit, Quota].    *)
(***************************************************************************)
HeaderGet(req, name) == IF name \in DOMAIN req.Headers THEN req.Headers[name] ELSE ""

QueryGet(req, name) == IF name \in DOMAIN req.Query THEN req.Query[name] ELSE ""

FallbackValues == {"sk-unknown", "anonymous", "guest"}

extractIP(req) ==
  LET ip1 == IF req.XForwardedFor # <<>>
             THEN TrimSpace(SplitFirst(req.XForwardedFor, ","))
             ELSE req.RemoteAddr
      ip2 == IF req.XRealIP # <<>> THEN req.XRealIP ELSE ip1
      idx == LastIndex(ip2, ":")
  IN Str(IF idx # 0 THEN SubSeq(ip2, 1, idx - 1) ELSE ip2)

\* extractIdentifier with the Header rule testing that the header is
\* present instead of testing that its value is not empty.
extractIdentifierByPresence(req, config) ==
  CASE config.Type = "Header" ->
         IF config.Name \in DOMAIN req.Headers
         THEN (IF req.Headers[config.Name] = config.Value THEN config.Value ELSE "")
         ELSE IF config.Value \in FallbackValues THEN config.Value ELSE ""
    [] config.Type = "IP" -> extractIP(req)
    [] config.Type = "Query" ->
         IF QueryGet(req, config.Name) # "" THEN QueryGet(req, config.Name) ELSE config.Value
    [] config.Type = "Cookie" ->
         IF config.Name \in DOMAIN req.Cookies THEN req.Cookies[config.Name] ELSE config.Value
    [] OTHER -> config.Value

\* extractIdentifier with the Cookie and Query rules matching only the
\* configured value.
extractIdentifierExact(req, config) ==
  CASE config.Type = "Header" ->
         LET value == HeaderGet(req, config.Name)
         IN IF value # ""
            THEN (IF value = config.Value THEN value ELSE "")
            ELSE IF config.Value \in FallbackValues THEN config.Value ELSE ""
    [] config.Type = "IP" -> extractIP(req)
    [] config.Type = "Query" ->
         IF QueryGet(req, config.Name) = config.Value THEN config.Value ELSE ""
    [] config.Type = "Cookie" ->
         IF config.Name \in DOMAIN req.Cookies /\ req.Cookies[config.Name] = config.Value
         THEN config.Value ELSE ""
    [] OTHER -> config.Value

extractIdentifier(req, config) ==
  CASE config.Type = "Header" ->
         LET value == HeaderGet(req, config.Name)
         IN IF value # ""
            THEN (IF value = config.Value THEN value ELSE "")
            ELSE IF config.Value \in FallbackValues THEN config.Value ELSE ""
    [] config.Type = "IP" -> extractIP(req)
    [] config.Type = "Query" ->
         IF QueryGet(req, config.Name) # "" THEN QueryGet(req, config.Name) ELSE config.Value
    [] config.Type = "Cookie" ->
         IF config.Name \in DOMAIN req.Cookies THEN req.Cookies[config.Name] ELSE config.Value
    [] OTHER -> config.Value

\* The key of a rule in the managers map: "Type:Name:Value".
ManagerKey(config) == config.Type \o ":" \o config.Name \o ":" \o config.Value

\* New: the managers map; a later rule with the same key replaces an earlier.
Managers(rs) ==
  [k \in {ManagerKey(rs[i]) : i \in 1..Len(rs)} |->
     rs[CHOOSE i \in 1..Len(rs) :
          /\ ManagerKey(rs[i]) = k
          /\ \A j \in 1..Len(rs) : ManagerKey(rs[j]) = k => j <= i]]

\* The orders in which `for key, manager := range q.managers` may visit the
\* map: Go leaves the iteration order of a map unspecified.
RangeOrders(m) ==
  {o \in [1..Cardinality(DOMAIN m) -> DOMAIN m] : \A i, j \in DOMAIN o : o[i] = o[j] => i = j}

\* The rule list in configured order, as an iteration order.
ConfiguredOrder(rs) == [i \in 1..Len(rs) |-> ManagerKey(rs[i])]

\* The position in `order` of the first rule that yields an identifier, 0
\* when none does.
\* FirstMatch that falls back on the first rule visited when no rule
\* yields an identifier.
FirstMatchOrFirst(req, m, order) ==
  LET hit == {i \in 1..Len(order) : extractIdentifier(req, m[order[i]]) # ""}
  IN IF hit = {} THEN 1 ELSE CHOOSE i \in hit : \A j \in hit : i <= j

FirstMatch(req, m, order) ==
  LET hit == {i \in 1..Len(order) : extractIdentifier(req, m[order[i]]) # ""}
  IN IF hit = {} THEN 0 ELSE CHOOSE i \in hit : \A j \in hit : i <= j

\* checkIdentifier with the quota check made before the limiter's denial is
\* returned.
checkIdentifierQuotaFirst(s, manager, identifier, t) ==
  LET rl     == manager.RateLimit
      calls1 == IF rl.Enabled THEN <<"Allow", "GetLimitInfo">> ELSE <<>>
      calls2 == IF manager.Quota.Enabled THEN Append(calls1, "CheckQuota") ELSE calls1
  IN The({ The({
       IF a.res = "Denied"
       THEN [Allowed |-> FALSE,
             RateLimit |-> IF rl.Enabled THEN GetLimitInfo(a.store, identifier, rl, t) ELSE Nil,
             Quota |-> cq.info,
             Identifier |-> identifier, IdentifierType |-> manager.Type,
             Reason |-> "Rate limit exceeded",
             ResponseCode |-> rl.Code, ResponseBody |-> rl.Body,
             store |-> a.store, calls |-> calls2]
       ELSE [Allowed |-> cq.allowed,
             RateLimit |-> IF rl.Enabled THEN GetLimitInfo(a.store, identifier, rl, t) ELSE Nil,
             Quota |-> cq.info,
             Identifier |-> identifier, IdentifierType |-> manager.Type,
             Reason |-> IF cq.allowed THEN "Request allowed" ELSE "Quota exceeded",
             ResponseCode |-> IF cq.allowed THEN 0 ELSE manager.Quota.Code,
             ResponseBody |-> IF cq.allowed THEN "" ELSE manager.Quota.Body,
             store |-> a.store, calls |-> calls2] :
       cq \in {IF manager.Quota.Enabled
               THEN CheckQuota(a.store, identifier, manager.Quota, t)
               ELSE [allowed |-> TRUE, info |-> Nil]} }) :
     a \in {IF rl.Enabled THEN Allow(s, identifier, rl, t)
            ELSE [res |-> "Allowed", store |-> s]} })

\* checkIdentifier: the QuotaResponse, the store after it and the calls made.
checkIdentifier(s, manager, identifier, t) ==
  LET rl     == manager.RateLimit
      calls1 == IF rl.Enabled THEN <<"Allow", "GetLimitInfo">> ELSE <<>>
      calls2 == IF manager.Quota.Enabled THEN Append(calls1, "CheckQuota") ELSE calls1
  IN The({
       \* an error of Allow fails open
       IF a.res = "Denied"
       THEN [Allowed |-> FALSE,
             RateLimit |-> IF rl.Enabled THEN GetLimitInfo(a.store, identifier, rl, t) ELSE Nil,
             Quota |-> Nil,
             Identifier |-> identifier, IdentifierType |-> manager.Type,
             Reason |-> "Rate limit exceeded",
             ResponseCode |-> rl.Code, ResponseBody |-> rl.Body,
             store |-> a.store, calls |-> calls1]
       ELSE The({
              IF ~cq.allowed
              THEN [Allowed |-> FALSE,
                    RateLimit |-> IF rl.Enabled THEN GetLimitInfo(a.store, identifier, rl, t)
                                  ELSE Nil,
                    Quota |-> cq.info,
                    Identifier |-> identifier, IdentifierType |-> manager.Type,
                    Reason |-> "Quota exceeded",
                    ResponseCode |-> manager.Quota.Code, ResponseBody |-> manager.Quota.Body,
                    store |-> a.store, calls |-> calls2]
              ELSE [Allowed |-> TRUE,
                    RateLimit |-> IF rl.Enabled THEN GetLimitInfo(a.store, identifier, rl, t)
                                  ELSE Nil,
                    Quota |-> cq.info,
                    Identifier |-> identifier, IdentifierType |-> manager.Type,
                    Reason |-> "Request allowed", ResponseCode |-> 0, ResponseBody |-> "",
                    store |-> a.store, calls |-> calls2] :
              cq \in {IF manager.Quota.Enabled
                      THEN CheckQuota(a.store, identifier, manager.Quota, t)
                      ELSE [allowed |-> TRUE, info |-> Nil]} }) :
       a \in {IF rl.Enabled THEN Allow(s, identifier, rl, t)
              ELSE [res |-> "Allowed", store |-> s]} })

\* writeQuotaHeaders: the headers set, by name.  Times are Unix seconds.
writeQuotaHeaders(response) ==
  LET rlh == IF response.RateLimit = Nil THEN <<>>
             ELSE ( "X-RateLimit-Limit" :> ToString(response.RateLimit.Limit)
                 @@ "X-RateLimit-Remaining" :> ToString(response.RateLimit.Available)
                 @@ "X-RateLimit-Reset" :> ToString(response.RateLimit.ResetTime \div Second)
                 @@ (IF response.RateLimit.RetryAfter > 0
                     THEN "Retry-After" :> ToString(WholeSeconds(response.RateLimit.RetryAfter))
                     ELSE <<>>) )
      qh  == IF response.Quota = Nil THEN <<>>
             ELSE ( "X-Quota-Limit" :> ToString(response.Quota.Limit)
                 @@ "X-Quota-Used" :> ToString(response.Quota.Used)
                 @@ "X-Quota-Remaining" :> ToString(response.Quota.Remaining)
                 @@ "X-Quota-Reset" :> ToString(response.Quota.ResetTime \div Second) )
  IN rlh @@ qh

\* The body of the 403 written when no rule yields an identifier.
NoIdentifierBody == "{\"error\": \"Access denied\", \"message\": \"No valid identifier found in request\"}"

\* The deny bodies configured in the rules of this model that contain both
\* "{" and "}" (strings.Contains on the bodies the model uses).
BraceBodies == {"{\"error\": \"quota\"}"}

ContentTypeOf(responseBody) ==
  IF responseBody \in BraceBodies THEN "application/json" ELSE "text/plain"

\* ServeHTTP from "Request is allowed" on with ConsumeQuota and the
\* downstream handler exchanged.
ForwardThenConsume(s, manager, identifier, t) ==
  IF manager.Quota.Enabled
  THEN [store |-> ConsumeQuota(s, identifier, manager.Quota, 1, t).store,
        calls |-> <<"Next", "ConsumeQuota">>]
  ELSE [store |-> s, calls |-> <<"Next">>]

\* ServeHTTP from "Request is allowed" on without ConsumeQuota.
ForwardOnly(s, manager, identifier, t) == [store |-> s, calls |-> <<"Next">>]

\* ServeHTTP from "Request is allowed" on: ConsumeQuota when quota is
\* enabled (its error is logged and dropped), then the downstream handler.
Forward(s, manager, identifier, t) ==
  IF manager.Quota.Enabled
  THEN [store |-> ConsumeQuota(s, identifier, manager.Quota, 1, t).store,
        calls |-> <<"ConsumeQuota", "Next">>]
  ELSE [store |-> s, calls |-> <<"Next">>]

\* ServeHTTP: what the request got and the store after it.  `order` is the
\* order in which the range over the managers map visited the rules.
\* status 0 stands for the status the downstream handler writes.
ServeHTTP(s, rs, req, order, t) ==
  The({
    IF i = 0
    THEN [store |-> s,
          resp |-> [req |-> req, matched |-> FALSE, key |-> "",
                    evaluated |-> order, identifier |-> "",
                    rateEnabled |-> FALSE, quotaEnabled |-> FALSE,
                    allowed |-> FALSE, reason |-> "", forwarded |-> FALSE,
                    status |-> 403, contentType |-> "application/json",
                    body |-> NoIdentifierBody, headers |-> <<>>,
                    quota |-> Nil, calls |-> <<"WriteStatus">>]]
    ELSE
      The({ The({
        LET statusCode == IF r.ResponseCode # 0 THEN r.ResponseCode
                          ELSE IF r.Reason = "Quota exceeded" THEN 403 ELSE 429
            responseBody == IF r.ResponseBody # "" THEN r.ResponseBody ELSE r.Reason
            common     == [req |-> req, matched |-> TRUE, key |-> order[i],
                           evaluated |-> SubSeq(order, 1, i), identifier |-> identifier,
                           rateEnabled |-> m[order[i]].RateLimit.Enabled,
                           quotaEnabled |-> m[order[i]].Quota.Enabled,
                           allowed |-> r.Allowed, reason |-> r.Reason,
                           headers |-> writeQuotaHeaders(r), quota |-> r.Quota]
        IN IF ~r.Allowed
           THEN [store |-> r.store,
                 resp |-> common @@
                          [forwarded |-> FALSE, status |-> statusCode,
                           contentType |-> ContentTypeOf(responseBody),
                           body |-> responseBody,
                           calls |-> r.calls \o <<"WriteHeaders", "WriteStatus">>]]
           ELSE The({ [store |-> f.store,
                       resp |-> common @@
                                [forwarded |-> TRUE, status |-> 0, contentType |-> "",
                                 body |-> "",
                                 calls |-> r.calls \o <<"WriteHeaders">> \o f.calls]] :
                      f \in {Forward(r.store, m[order[i]], identifier, t)} }) :
        r \in {checkIdentifier(s, m[order[i]], identifier, t)} }) :
      identifier \in {extractIdentifier(req, m[order[i]])} }) :
    m \in {Managers(rs)}, i \in {FirstMatch(req, Managers(rs), order)} })

(***************************************************************************)
(* The middleware under sequential requests: configurations, requests,     *)
(* and the clock in steps of half a day.                                   *)
(***************************************************************************)
\* Clock step of the middleware specification: 12h.
Step == 43200 * Second
\* Number of clock steps a behaviour may take.
MaxSteps == 4

RateOff == [Enabled |-> FALSE, Rate |-> 0, Burst |-> 0, Period |-> 60 * Second,
            Code |-> 0, Body |-> ""]

QuotaOff == [Enabled |-> FALSE, Limit |-> 0, Period |-> "", Code |-> 0, Body |-> ""]

\* rate_limit: 1 per 12h, burst 2, default 429 and body.
RateHalfDay == [Enabled |-> TRUE, Rate |-> 1, Burst |-> 2, Period |-> 43200 * Second,
                Code |-> 0, Body |-> ""]

QuotaOf(limit, period) ==
  [Enabled |-> TRUE, Limit |-> limit, Period |-> period, Code |-> 0, Body |-> ""]

QuotaCustom(limit, period) ==
  [Enabled |-> TRUE, Limit |-> limit, Period |-> period, Code |-> 402,
   Body |-> "{\"error\": \"quota\"}"]

HeaderRule(value, rl, q) ==
  [Type |-> "Header", Name |-> "X-User-ID", Value |-> value, RateLimit |-> rl, Quota |-> q]

IPRule(rl, q) == [Type |-> "IP", Name |-> "", Value |-> "", RateLimit |-> rl, Quota |-> q]

\* The rule lists explored, in configured order.
Configs ==
  { <<HeaderRule("sk-a", RateHalfDay, QuotaOf(2, "Weekly")),
      HeaderRule("anonymous", RateOff, QuotaOf(2, "Daily")),
      IPRule(RateOff, QuotaCustom(2, "Monthly"))>>,
    <<HeaderRule("sk-a", RateHalfDay, QuotaOff),
      HeaderRule("anonymous", RateOff, QuotaOf(1, "Weekly"))>> }

Addr == <<"1", ".", "1", ".", "1", ".", "1", ":", "8", "0">>

Request(userID) ==
  [Headers |-> IF userID = "" THEN <<>> ELSE [n \in {"X-User-ID"} |-> userID],
   XForwardedFor |-> <<>>, XRealIP |-> <<>>, RemoteAddr |-> Addr,
   Query |-> <<>>, Cookies |-> <<>>]

\* A known key, an unknown key, no key.
Requests == {Request("sk-a"), Request("sk-b"), Request("")}

NoResp == [matched |-> FALSE, forwarded |-> FALSE, calls |-> <<>>]

(***************************************************************************)
(* The limiter on its own: one limiter, one identifier, calls at           *)
(* non-decreasing times.                                                   *)
(***************************************************************************)
LimiterConfigs ==
  [Enabled : {TRUE}, Rate : 1..MaxRate, Burst : 1..MaxBurst, Period : PeriodChoices]

NoOp == [op |-> "none", res |-> "none", refilled |-> FALSE, tokens |-> 0, fresh |-> FALSE]

TokensKey == GetRateLimitKey(LimiterId) \o ":tokens"

NoRun == [full |-> FALSE, res |-> <<>>]

InitLimiter ==
  /\ now = 0
  /\ store = EmptyStore
  /\ cfg \in LimiterConfigs
  /\ last = NoOp
  /\ rapid = NoRun
  /\ recent = <<>>
  /\ expired = FALSE
  /\ rules = <<>>
  /\ resp = NoResp
  /\ deniedUntil = <<>>
  /\ faults = {}
  /\ tasks = <<>>
  /\ held = 0
  /\ conn = <<>>

\* The clock advances; the store drops the keys that expired.
Tick ==
  /\ now < MaxTicks * TickLen
  /\ now' = now + TickLen
  /\ store' = Purge(store, now')
  /\ recent' = SelectSeq(recent, LAMBDA u : u.at >= now' - cfg.Period)
  /\ rapid' = NoRun
  /\ last' = NoOp
  /\ expired' = (expired \/ (TokensKey \in DOMAIN store /\ ~Live(store, TokensKey, now')))
  /\ UNCHANGED <<cfg, middlewareVars, concurrentVars>>

\* One Allow call: the store after it and what it returned.
AllowStep(r) ==
  /\ store' = r.store
  /\ last' = [op |-> "Allow", res |-> r.res, refilled |-> TRUE, tokens |-> r.tokens,
              fresh |-> r.fresh]
  /\ UNCHANGED <<now, cfg, expired, middlewareVars, concurrentVars>>

\* Allow, recorded in the run of calls at this instant and in the window.
DoAllow ==
  /\ Len(rapid.res) < MaxCalls
  /\ LET r == Allow(store, LimiterId, cfg, now)
     IN /\ AllowStep(r)
        /\ rapid' = [full |-> IF rapid.res = <<>>
                              THEN r.tokens = cfg.Burst * cfg.Period
                              ELSE rapid.full,
                     res |-> Append(rapid.res, r.res)]
        /\ recent' = IF r.res = "Allowed"
                      THEN Append(recent, [at |-> now, recreated |-> r.fresh /\ expired])
                      ELSE recent

\* Allow among the other operations of the limiter.
DoAllowOnce ==
  /\ AllowStep(Allow(store, LimiterId, cfg, now))
  /\ UNCHANGED <<rapid, recent>>

DoAllowN ==
  \E n \in 0..MaxN :
    LET r == AllowN(store, LimiterId, cfg, n, now)
    IN /\ store' = r.store
       /\ last' = [op |-> "AllowN", res |-> r.res, refilled |-> r.refilled,
                   tokens |-> r.tokens, fresh |-> r.fresh]
       /\ UNCHANGED <<now, cfg, rapid, recent, expired, middlewareVars, concurrentVars>>

DoReset ==
  LET r == Reset(store, LimiterId, cfg, now)
  IN /\ store' = r.store
     /\ last' = [op |-> "Reset", res |-> IF r.err THEN "Error" ELSE "Ok",
                 refilled |-> FALSE, tokens |-> 0, fresh |-> FALSE]
     /\ UNCHANGED <<now, cfg, rapid, recent, expired, middlewareVars, concurrentVars>>

DoGetLimitInfo ==
  /\ last' = [op |-> "GetLimitInfo", res |-> "Ok", refilled |-> TRUE,
              tokens |-> GetLimitInfo(store, LimiterId, cfg, now).tokens, fresh |-> FALSE]
  /\ UNCHANGED <<now, store, cfg, rapid, recent, expired, middlewareVars, concurrentVars>>

DoGetCurrentTokens ==
  /\ last' = [op |-> "GetCurrentTokens", res |-> "Ok", refilled |-> TRUE,
              tokens |-> GetCurrentTokens(store, LimiterId, cfg, now), fresh |-> FALSE]
  /\ UNCHANGED <<now, store, cfg, rapid, recent, expired, middlewareVars, concurrentVars>>

\* Allow calls only, as the middleware issues them.
NextAllow == Tick \/ DoAllow

SpecAllow == InitLimiter /\ [][NextAllow]_vars

\* Every operation of the limiter.
NextLimiter ==
  \/ Tick
  \/ DoAllowOnce
  \/ DoAllowN
  \/ DoReset
  \/ DoGetLimitInfo
  \/ DoGetCurrentTokens

SpecLimiter == InitLimiter /\ [][NextLimiter]_vars

(***************************************************************************)
(* The middleware: requests served one at a time.                          *)
(***************************************************************************)
Init ==
  /\ now = 0
  /\ store = EmptyStore
  /\ rules \in Configs
  /\ resp = NoResp
  /\ deniedUntil = <<>>
  /\ faults = {}
  /\ cfg = RateOff
  /\ last = NoOp
  /\ rapid = NoRun
  /\ recent = <<>>
  /\ expired = FALSE
  /\ tasks = <<>>
  /\ held = 0
  /\ conn = <<>>

\* The next multiple of Step after t.
NextBoundary(t) == ((t \div Step) + 1) * Step

\* The clock advances to the next multiple of Step or, when that is a
\* midnight, to the instant TickLen before it; the store drops the keys that
\* expired.
Advance ==
  /\ now < MaxSteps * Step
  /\ \E t \in {NextBoundary(now) - TickLen, NextBoundary(now)} :
        /\ t > now
        /\ t % Step # 0 => NextBoundary(now) % Day = 0
        /\ now' = t
  /\ store' = Purge(store, now')
  /\ resp' = NoResp
  /\ deniedUntil' = [x \in {y \in DOMAIN deniedUntil : deniedUntil[y] > now'} |->
                       deniedUntil[x]]
  /\ UNCHANGED <<rules, faults, limiterVars, concurrentVars>>

\* One request, served to the end.
Serve ==
  \E req \in Requests, order \in RangeOrders(Managers(rules)) :
    \E r \in {ServeHTTP(store, rules, req, order, now)} :
       /\ store' = r.store
       /\ resp' = r.resp
       /\ deniedUntil' =
            IF r.resp.matched /\ ~r.resp.allowed /\ r.resp.reason = "Quota exceeded"
            THEN (r.resp.identifier :> r.resp.quota.ResetTime) @@ deniedUntil
            ELSE deniedUntil
       /\ UNCHANGED <<now, rules, faults, limiterVars, concurrentVars>>

Next == Advance \/ Serve

Spec == Init /\ [][Next]_vars

(***************************************************************************)
(* Claims about the middleware (specification Spec).                       *)
(***************************************************************************)
\* The counter stored for an identifier in the window that holds t (an
\* absent counter counts as 0).
QuotaCounter(s, identifier, q, t) ==
  LET key == GetQuotaKey(identifier, GetQuotaPeriodKey(q.Period, t))
  IN IF Live(s, key, t) THEN s[key].val ELSE 0

\* The identifiers a rule yields for the requests explored.
IdentifiersOf(rule) == {extractIdentifier(req, rule) : req \in Requests} \ {""}

\* The rules with a quota, each with an identifier it counts.
CountedPairs ==
  {p \in [rule : {rules[i] : i \in 1..Len(rules)},
          identifier : {"sk-a", "anonymous", "1.1.1.1"}] :
     p.rule.Quota.Enabled /\ p.identifier \in IdentifiersOf(p.rule)}

\* The instants the clock of Spec can show.
Instants ==
  {i * Step : i \in 0..MaxSteps} \cup {i * Step - TickLen : i \in 1..MaxSteps}

Occurrences(calls, name) == Cardinality({i \in 1..Len(calls) : calls[i] = name})

\* `a` and `b` are each called once, `a` before `b`.
Precedes(calls, a, b) ==
  /\ Occurrences(calls, a) = 1
  /\ Occurrences(calls, b) = 1
  /\ \E i, j \in 1..Len(calls) : i < j /\ calls[i] = a /\ calls[j] = b

\* No stored counter is above the limit of its rule.
CountersWithinLimit ==
  \A p \in CountedPairs : QuotaCounter(store, p.identifier, p.rule.Quota, now) <= p.rule.Quota.Limit

\* A request that reaches the quota check is allowed iff the counter it
\* found is below the limit; allowed, it is forwarded and leaves the counter
\* one higher; denied, it leaves the counter as it was.
QuotaCheckStep ==
  (now' = now /\ resp'.matched /\ resp'.quotaEnabled /\ resp'.reason # "Rate limit exceeded") =>
    LET q     == Managers(rules)[resp'.key].Quota
        used  == QuotaCounter(store, resp'.identifier, q, now)
        after == QuotaCounter(store', resp'.identifier, q, now')
    IN /\ resp'.allowed <=> used < q.Limit
       /\ resp'.allowed => resp'.forwarded /\ after = used + 1
       /\ ~resp'.allowed => resp'.reason = "Quota exceeded" /\ ~resp'.forwarded /\ after = used

\* C4: CheckQuota allows iff the stored counter is below the limit; a
\* request admitted at limit - 1 raises the counter to limit, every check
\* after it is denied, and no counter ever exceeds its limit.
C4_AdmitsUpToLimit == [][QuotaCheckStep]_vars /\ []CountersWithinLimit

\* C5: for every identifier and period label, the counter under
\* quota:<identifier>:<label> neither decreases nor disappears while the
\* clock stays inside the window with that label, and it is absent once the
\* clock has left that window.
C5_CounterLivesWithItsWindow ==
  [][\A p \in CountedPairs, u \in Instants :
       LET period == p.rule.Quota.Period
           label  == GetQuotaPeriodKey(period, u)
           key    == GetQuotaKey(p.identifier, label)
       IN /\ ( Live(store, key, now)
               /\ GetQuotaPeriodKey(period, now) = label
               /\ GetQuotaPeriodKey(period, now') = label )
             => (Live(store', key, now') /\ store'[key].val >= store[key].val)
          /\ (u <= now' /\ GetQuotaPeriodKey(period, now') # label)
             => ~Live(store', key, now')]_vars

\* C6: after a request of an identifier was denied with "Quota exceeded", no
\* request of that identifier is forwarded before the reset time reported
\* with the denial.
C6_DeniedUntilReset ==
  resp.forwarded =>
    (resp.identifier \notin DOMAIN deniedUntil \/ now >= deniedUntil[resp.identifier])

\* C7: the rule that decides is the first rule in configured order that
\* yields an identifier, and the rules evaluated are those up to it.
C7_FirstConfiguredRuleDecides ==
  resp.matched =>
    LET order == ConfiguredOrder(rules)
        i     == FirstMatch(resp.req, Managers(rules), order)
    IN resp.key = order[i] /\ resp.evaluated = SubSeq(order, 1, i)

\* C8: two evaluations of the same request under the same configuration
\* select the same rule and the same identifier.
C8_SameRequestSameRule ==
  [][(resp.matched /\ resp'.matched /\ resp'.req = resp.req /\ rules' = rules)
       => (resp'.key = resp.key /\ resp'.identifier = resp.identifier)]_vars

C10_OneConsumePerForward ==
  /\ (resp.matched /\ resp.quotaEnabled) =>
       Occurrences(resp.calls, "ConsumeQuota") = (IF resp.forwarded THEN 1 ELSE 0)
  /\ ~resp.matched => Occurrences(resp.calls, "ConsumeQuota") = 0

C10_Witness ==
  /\ resp.forwarded
  /\ resp.quotaEnabled
  /\ ~resp.rateEnabled
  /\ Occurrences(resp.calls, "ConsumeQuota") = 1
  /\ QuotaCounter(store, resp.identifier, Managers(rules)[resp.key].Quota, now) = 1


\* The keys of the quota counters of the rules, over the windows the clock
\* of Spec can show.
QuotaKeys ==
  {GetQuotaKey(p.identifier, GetQuotaPeriodKey(p.rule.Quota.Period, u)) :
     p \in CountedPairs, u \in Instants}

\* The keys in K hold the same entries in s1 and s2.
SameEntries(s1, s2, K) ==
  \A k \in K : /\ (k \in DOMAIN s1) = (k \in DOMAIN s2)
               /\ k \in DOMAIN s1 => s1[k] = s2[k]

\* C11: a request denied by the limiter issues no CheckQuota and no
\* ConsumeQuota, leaves every quota counter as it was, is not forwarded,
\* and is answered with the rule's rate-limit status (429 when none is
\* configured).
C11_RateDenialLeavesQuota ==
  [][(now' = now /\ resp'.matched /\ resp'.reason = "Rate limit exceeded") =>
       LET rule == Managers(rules)[resp'.key]
       IN /\ rule.RateLimit.Enabled
          /\ ~resp'.forwarded
          /\ Occurrences(resp'.calls, "CheckQuota") = 0
          /\ Occurrences(resp'.calls, "ConsumeQuota") = 0
          /\ SameEntries(store, store', QuotaKeys)
          /\ QuotaCounter(store', resp'.identifier, rule.Quota, now)
               = QuotaCounter(store, resp'.identifier, rule.Quota, now)
          /\ resp'.status = (IF rule.RateLimit.Code # 0 THEN rule.RateLimit.Code ELSE 429)]_vars

\* Two requests passed and raised the counter to 2, the third is denied by
\* the limiter with 429 and the counter is still 2.
C11_Witness ==
  /\ resp.matched
  /\ resp.reason = "Rate limit exceeded"
  /\ resp.rateEnabled
  /\ resp.quotaEnabled
  /\ resp.status = 429
  /\ QuotaCounter(store, resp.identifier, Managers(rules)[resp.key].Quota, now) = 2


\* C12: a request that Allow accepted and the quota check denied leaves the
\* stored bucket at the refilled tokens less one token, with last_refill at
\* the time of the request, and leaves every quota counter as it was.
C12_QuotaDenialSpendsToken ==
  [][(/\ now' = now
      /\ resp'.matched
      /\ resp'.reason = "Quota exceeded"
      /\ Managers(rules)[resp'.key].RateLimit.Enabled
      /\ Allow(store, resp'.identifier, Managers(rules)[resp'.key].RateLimit, now).res = "Allowed")
     =>
       LET rl  == Managers(rules)[resp'.key].RateLimit
           key == GetRateLimitKey(resp'.identifier)
       IN /\ ~resp'.forwarded
          /\ Live(store', key \o ":tokens", now)
          /\ Live(store', key \o ":last_refill", now)
          /\ store'[key \o ":tokens"].val
               = GetCurrentTokens(store, resp'.identifier, rl, now) - rl.Period
          /\ store'[key \o ":last_refill"].val = now
          /\ SameEntries(store, store', QuotaKeys)]_vars

\* Half a day after two requests emptied the bucket and filled the quota,
\* a request spends the token that was refilled and is denied by the quota.
C12_Witness ==
  /\ resp.matched
  /\ resp.reason = "Quota exceeded"
  /\ resp.rateEnabled
  /\ now > 0
  /\ Live(store, GetRateLimitKey(resp.identifier) \o ":tokens", now)
  /\ store[GetRateLimitKey(resp.identifier) \o ":tokens"].val = 0
  /\ store[GetRateLimitKey(resp.identifier) \o ":last_refill"].val = now
  /\ QuotaCounter(store, resp.identifier, Managers(rules)[resp.key].Quota, now)
       = Managers(rules)[resp.key].Quota.Limit


(***************************************************************************)
(* The middleware while store commands fail.                               *)
(***************************************************************************)
\* Number of clock steps a behaviour with failing commands may take.
MaxFaultySteps == 2
\* Largest value a quota counter may take while commands fail.
MaxUsed == 3

\* The commands the middleware sends.
Commands == {"GET", "SETEX", "INCRBY", "EXPIRE"}

\* The failures explored: none, one command failing without effect, one
\* command taking effect with its reply lost, every command failing.
FaultSets ==
  {{}} \cup {{c} : c \in Commands}
       \cup {{"SETEX-lost"}, {"INCRBY-lost"}, {"EXPIRE-lost"}}
       \cup {Commands \cup {"SET"}}

\* A rule with both features and a fallback rule with a quota only.
FaultyRules ==
  <<HeaderRule("sk-a", RateHalfDay, QuotaOf(2, "Daily")),
    HeaderRule("anonymous", RateOff, QuotaOf(1, "Daily"))>>

InitFaulty ==
  /\ now = 0
  /\ store = EmptyStore
  /\ rules = FaultyRules
  /\ resp = NoResp
  /\ deniedUntil = <<>>
  /\ faults \in FaultSets
  /\ cfg = RateOff
  /\ last = NoOp
  /\ rapid = NoRun
  /\ recent = <<>>
  /\ expired = FALSE
  /\ tasks = <<>>
  /\ held = 0
  /\ conn = <<>>

\* The store or the connection starts failing.
Break ==
  /\ faults = {}
  /\ \E f \in FaultSets : f # faults /\ faults' = f
  /\ resp' = NoResp
  /\ UNCHANGED <<now, store, rules, deniedUntil, limiterVars, concurrentVars>>

\* The clock moves to the next half day.
AdvanceFaulty == now < MaxFaultySteps * Step /\ Advance /\ now' % Step = 0

\* One request, as long as no counter passes MaxUsed (while GET fails the
\* quota check admits every request and the counters grow without bound).
ServeFaulty ==
  /\ Serve
  /\ \A p \in CountedPairs : QuotaCounter(store', p.identifier, p.rule.Quota, now) <= MaxUsed

NextFaulty == AdvanceFaulty \/ ServeFaulty \/ Break

SpecFaulty == InitFaulty /\ [][NextFaulty]_vars

(***************************************************************************)
(* Claims about the limiter.                                               *)
(***************************************************************************)
\* C1: from a full bucket and with no time passing, exactly the first
\* `burst` Allow calls return Allowed and every later call returns Denied.
C1_BurstThenDenied ==
  rapid.full =>
    \A i \in 1..Len(rapid.res) :
      rapid.res[i] = IF i <= cfg.Burst THEN "Allowed" ELSE "Denied"

\* The same, for the periods whose bucket writes the store accepts.
C1_BurstThenDeniedWholeSecondTTL ==
  (rapid.full /\ WholeSeconds(2 * cfg.Period) > 0) =>
    \A i \in 1..Len(rapid.res) :
      rapid.res[i] = IF i <= cfg.Burst THEN "Allowed" ELSE "Denied"

\* C2: the Allowed results inside any window of length `period` number at
\* most rate + burst (recent holds those of [now - period, now]).
C2_WindowBound == Len(recent) <= cfg.Rate + cfg.Burst

\* A window that is full to the bound and began with a bucket re-created
\* after its keys had expired.
C2_Witness ==
  /\ Len(recent) = cfg.Rate + cfg.Burst
  /\ recent[1].recreated
  /\ recent[Len(recent)].at > recent[1].at

\* C3: the tokens seen after every refill and the tokens persisted in the
\* store are within [0, burst].
C3_TokensInRange ==
  /\ last.refilled => (0 <= last.tokens /\ last.tokens <= cfg.Burst * cfg.Period)
  /\ TokensKey \in DOMAIN store =>
       (0 <= store[TokensKey].val /\ store[TokensKey].val <= cfg.Burst * cfg.Period)

\* AllowN took every token of a stored bucket that the refill had brought to
\* the cap: burst seen after the refill, 0 persisted.
C3_Witness ==
  /\ last.op = "AllowN" /\ last.res = "Allowed" /\ ~last.fresh
  /\ last.tokens = cfg.Burst * cfg.Period
  /\ TokensKey \in DOMAIN store /\ store[TokensKey].val = 0
  /\ store[GetRateLimitKey(LimiterId) \o ":last_refill"].val = now


(***************************************************************************)
(* Claims about the middleware while store commands fail (SpecFaulty).     *)
(***************************************************************************)
\* The bucket of the identifier is stored and, refilled to t, holds less
\* than one token.
OutOfTokens(s, identifier, c, t) ==
  LET key == GetRateLimitKey(identifier)
  IN /\ Live(s, key \o ":tokens", t)
     /\ Live(s, key \o ":last_refill", t)
     /\ refillBucket([Tokens |-> s[key \o ":tokens"].val,
                      LastRefill |-> s[key \o ":last_refill"].val,
                      Rate |-> c.Rate, Burst |-> c.Burst, RefillPeriod |-> c.Period],
                     t).Tokens < c.Period

MaxTasks == 3

Tasks == 1..MaxTasks

Idle == [pc |-> "idle", bucket |-> <<>>, res |-> "none"]

\* The stores the calls can begin with: no bucket yet (getBucket makes a
\* full one), or a bucket of k whole tokens saved by an earlier call.
RaceStarts(c) ==
  {[held |-> c.Burst * c.Period, store |-> EmptyStore]} \cup
  { The({ [held |-> IF saved.err THEN c.Burst * c.Period ELSE k * c.Period,
           store |-> saved.store] :
          saved \in {saveBucket(EmptyStore, GetRateLimitKey(LimiterId),
                       [createNewBucket(c, 0) EXCEPT !.Tokens = k * c.Period], 0)} }) :
    k \in 0..c.Burst }

InitRace ==
  /\ now = 0
  /\ faults = {}
  /\ cfg \in LimiterConfigs
  /\ \E start \in RaceStarts(cfg) : held = start.held /\ store = start.store
  /\ tasks = [p \in Tasks |-> Idle]
  /\ conn = <<>>
  /\ last = NoOp
  /\ rapid = NoRun
  /\ recent = <<>>
  /\ expired = FALSE
  /\ rules = <<>>
  /\ resp = NoResp
  /\ deniedUntil = <<>>

\* Allow up to the refill: getBucket, then refillBucket on the task's copy.
AllowRead(p) ==
  /\ tasks[p].pc = "idle"
  /\ tasks' = [tasks EXCEPT ![p] =
       [pc |-> "read",
        bucket |-> refillBucket(getBucket(store, GetRateLimitKey(LimiterId), cfg, now), now),
        res |-> "none"]]
  /\ UNCHANGED <<now, store, held, conn, limiterVars, middlewareVars>>

\* Allow from the test for a token: subtract one from the task's copy and
\* save it, or deny.
AllowWrite(p) ==
  /\ tasks[p].pc = "read"
  /\ LET bucket == tasks[p].bucket
     IN IF bucket.Tokens >= bucket.RefillPeriod
        THEN \E saved \in {saveBucket(store, GetRateLimitKey(LimiterId),
                             [bucket EXCEPT !.Tokens = bucket.Tokens - bucket.RefillPeriod],
                             now)} :
               /\ store' = saved.store
               /\ tasks' = [tasks EXCEPT ![p] =
                    [pc |-> "done", bucket |-> bucket,
                     res |-> IF saved.err THEN "Error" ELSE "Allowed"]]
        ELSE /\ store' = store
             /\ tasks' = [tasks EXCEPT ![p] =
                  [pc |-> "done", bucket |-> bucket, res |-> "Denied"]]
  /\ UNCHANGED <<now, held, conn, limiterVars, middlewareVars>>

NextRace == \E p \in Tasks : AllowRead(p) \/ AllowWrite(p)

SpecRace == InitRace /\ [][NextRace]_vars

(***************************************************************************)
(* Claims about concurrent Allow calls (specification SpecRace).           *)
(***************************************************************************)
AllowedCalls == Cardinality({p \in Tasks : tasks[p].res = "Allowed"})

\* C14: with k whole tokens stored and no refill, at most k of the
\* concurrent Allow calls return Allowed, and once no call is between its
\* read and its write the stored tokens are k less one per Allowed call.
C14_AllowSerialised ==
  /\ AllowedCalls * cfg.Period <= held
  /\ (\A p \in Tasks : tasks[p].pc # "read") =>
       getBucket(store, GetRateLimitKey(LimiterId), cfg, now).Tokens
         = held - AllowedCalls * cfg.Period

(***************************************************************************)
(* Request tasks sharing one SimpleRedisClient (specification SpecClient). *)
(* A command is writeCommand (one conn.Write of the whole command) and     *)
(* then readResponse on the shared bufio.Reader; the client has no mutex.  *)
(* The store answers the commands in the order they arrive.                *)
(***************************************************************************)
\* The commands a task may send: GET is answered by a bulk string (a
\* header line, then the data), INCRBY by one integer line.
ClientCommands == {"GET", "INCRBY"}

\* The reply of the store to the command of task p, line by line.
Reply(p, command) ==
  IF command = "GET"
  THEN <<[of |-> p, part |-> "bulk-header"], [of |-> p, part |-> "bulk-data"]>>
  ELSE <<[of |-> p, part |-> "integer"]>>

\* What a read returns when it ran while another task was using the reader
\* and the unsynchronised buffer indices were torn.
Torn == [of |-> 0, part |-> "torn"]

IdleClient == [pc |-> "idle", command |-> "none", got |-> <<>>]

InitClient ==
  /\ now = 0
  /\ faults = {}
  /\ store = EmptyStore
  /\ tasks = [p \in Tasks |-> IdleClient]
  /\ held = 0
  /\ conn = [wire |-> <<>>]
  /\ cfg = RateOff
  /\ last = NoOp
  /\ rapid = NoRun
  /\ recent = <<>>
  /\ expired = FALSE
  /\ rules = <<>>
  /\ resp = NoResp
  /\ deniedUntil = <<>>

\* writeCommand: the whole command goes out in one Write; the reply joins
\* the stream behind the replies to the commands written before.
writeCommand(p) ==
  /\ tasks[p].pc = "idle"
  /\ \E command \in ClientCommands :
       /\ tasks' = [tasks EXCEPT ![p] = [pc |-> "sent", command |-> command, got |-> <<>>]]
       /\ conn' = [conn EXCEPT !.wire = conn.wire \o Reply(p, command)]
  /\ UNCHANGED <<now, store, held, limiterVars, middlewareVars>>

\* The lines a read of task p can return: the next line of the stream, or a
\* torn one when another task is inside readResponse as well.
ReadOutcomes(p) ==
  {Head(conn.wire)} \cup
  (IF \E q \in Tasks \ {p} : tasks[q].pc \in {"sent", "data"} THEN {Torn} ELSE {})

\* readResponse, first line: reader.ReadString('\n') and the switch on its
\* first byte; a bulk header is followed by a read of the data.
readLine(p) ==
  /\ tasks[p].pc = "sent"
  /\ conn.wire # <<>>
  /\ \E line \in ReadOutcomes(p) :
       /\ tasks' = [tasks EXCEPT ![p] =
            [pc |-> IF line.part = "bulk-header" THEN "data" ELSE "done",
             command |-> tasks[p].command,
             got |-> <<line>>]]
       /\ conn' = [conn EXCEPT !.wire = Tail(conn.wire)]
  /\ UNCHANGED <<now, store, held, limiterVars, middlewareVars>>

\* readResponse, bulk string: reader.Read(data) and the trailing line end.
readBulk(p) ==
  /\ tasks[p].pc = "data"
  /\ conn.wire # <<>>
  /\ \E line \in ReadOutcomes(p) :
       /\ tasks' = [tasks EXCEPT ![p] =
            [pc |-> "done", command |-> tasks[p].command,
             got |-> Append(tasks[p].got, line)]]
       /\ conn' = [conn EXCEPT !.wire = Tail(conn.wire)]
  /\ UNCHANGED <<now, store, held, limiterVars, middlewareVars>>

NextClient == \E p \in Tasks : writeCommand(p) \/ readLine(p) \/ readBulk(p)

SpecClient == InitClient /\ [][NextClient]_vars

(***************************************************************************)
(* Claims about tasks sharing the client (specification SpecClient).       *)
(***************************************************************************)
\* C15: every task that completed a command read the reply to its own
\* command, whole and nothing else.
C15_OwnReply ==
  \A p \in Tasks :
    tasks[p].pc = "done" => tasks[p].got = Reply(p, tasks[p].command)

(***************************************************************************)
(* Construction of the client (specification SpecConnect): NewRedisClient  *)
(* as a function of the configuration, of whether the dial succeeds and of *)
(* the store's replies to AUTH, SELECT and PING.  A reply is the sequence  *)
(* of lines the reader delivers, each a character sequence; no line at all *)
(* is a read that fails (connection closed).                               *)
(***************************************************************************)
CRLF == <<"\r", "\n">>

PlusOK == <<<<"+", "O", "K">> \o CRLF>>
PlusPONG == <<<<"+", "P", "O", "N", "G">> \o CRLF>>
MinusERR == <<<<"-", "E", "R", "R">> \o CRLF>>
\* The bulk string whose three bytes are +OK.
BulkPlusOK == <<<<"$", "3">> \o CRLF, <<"+", "O", "K">> \o CRLF>>
NilBulk == <<<<"$", "-", "1">> \o CRLF>>
BlankLine == <<CRLF>>
Closed == <<>>

Replies == {PlusOK, PlusPONG, MinusERR, BulkPlusOK, NilBulk, BlankLine, Closed}

\* strings.HasPrefix
HasPrefix(cs, prefix) ==
  Len(cs) >= Len(prefix) /\ SubSeq(cs, 1, Len(prefix)) = prefix

Digits == {"0", "1", "2", "3", "4", "5", "6", "7", "8", "9"}

DigitValue(c) ==
  CASE c = "0" -> 0 [] c = "1" -> 1 [] c = "2" -> 2 [] c = "3" -> 3 [] c = "4" -> 4
    [] c = "5" -> 5 [] c = "6" -> 6 [] c = "7" -> 7 [] c = "8" -> 8 [] c = "9" -> 9

\* strconv.Atoi for the lengths that occur: one digit, or -1.
Atoi(cs) ==
  IF cs = <<"-", "1">> THEN [err |-> FALSE, val |-> -1]
  ELSE IF Len(cs) = 1 /\ cs[1] \in Digits THEN [err |-> FALSE, val |-> DigitValue(cs[1])]
  ELSE [err |-> TRUE, val |-> 0]

Returned(cs) == [out |-> "ok", resp |-> cs]
Failed == [out |-> "error", resp |-> <<>>]
\* line[0] of an empty line: index out of range.
Panicked == [out |-> "panic", resp |-> <<>>]

\* readResponse on the lines of one reply.
readResponse(reply) ==
  IF reply = <<>> THEN Failed
  ELSE LET line == TrimSpace(Head(reply))
       IN IF line = <<>> THEN Panicked
          ELSE CASE line[1] = "+" -> Returned(Tail(line))
                 [] line[1] = "-" -> Failed
                 [] line[1] = ":" -> Returned(Tail(line))
                 [] line[1] = "$" ->
                      LET length == Atoi(Tail(line))
                      IN IF length.err \/ length.val = -1 THEN Failed
                         ELSE IF length.val = 0 THEN Returned(<<>>)
                         ELSE IF Len(reply) < 2 THEN Failed
                         ELSE Returned(SubSeq(reply[2], 1, Min(length.val, Len(reply[2]))))
                 [] OTHER -> Returned(line)

\* auth and selectDB: the reply must begin with +OK.
RequirePlusOK(reply) ==
  LET r == readResponse(reply)
  IN IF r.out # "ok" THEN r.out
     ELSE IF HasPrefix(r.resp, <<"+", "O", "K">>) THEN "ok" ELSE "error"

auth(reply) == RequirePlusOK(reply)

selectDB(reply) == RequirePlusOK(reply)

Ping(reply) == readResponse(reply).out

connect(c) ==
  IF ~c.dial THEN "error"
  ELSE LET authenticated == IF c.password # "" THEN auth(c.auth) ELSE "ok"
       IN IF authenticated # "ok" THEN authenticated
          ELSE IF c.db # 0 THEN selectDB(c.select) ELSE "ok"

\* "ok": a client is returned; "error": an error is returned; "panic".
NewRedisClient(c) ==
  LET connected == connect(c)
  IN IF connected # "ok" THEN connected ELSE Ping(c.ping)

InitConnect ==
  /\ now = 0
  /\ faults = {}
  /\ store = EmptyStore
  /\ tasks = <<>>
  /\ held = 0
  /\ conn \in [dial : BOOLEAN, password : {"", "secret"}, db : {0, 1},
               auth : Replies, select : Replies, ping : Replies, result : {"none"}]
  /\ cfg = RateOff
  /\ last = NoOp
  /\ rapid = NoRun
  /\ recent = <<>>
  /\ expired = FALSE
  /\ rules = <<>>
  /\ resp = NoResp
  /\ deniedUntil = <<>>

Construct ==
  /\ conn.result = "none"
  /\ conn' = [conn EXCEPT !.result = NewRedisClient(conn)]
  /\ UNCHANGED <<now, store, tasks, held, limiterVars, middlewareVars>>

NextConnect == Construct

SpecConnect == InitConnect /\ [][NextConnect]_vars

(***************************************************************************)
(* Claims about the construction of the client (specification SpecConnect).*)
(***************************************************************************)
\* The dial succeeds and the store gives the expected reply to every
\* command that is sent.
ExpectedReplies(c) ==
  /\ c.dial
  /\ c.password # "" => c.auth = PlusOK
  /\ c.db # 0 => c.select = PlusOK
  /\ c.ping = PlusPONG

\* C16: construction returns a client exactly when the dial succeeds, AUTH
\* (sent iff a password is set) and SELECT (sent iff db # 0) are answered
\* +OK and PING is answered +PONG; otherwise it returns an error.
C16_SucceedsIffExpected ==
  conn.result # "none" =>
    /\ ExpectedReplies(conn) => conn.result = "ok"
    /\ ~ExpectedReplies(conn) => conn.result = "error"

(***************************************************************************)
(* extractIdentifier on one rule and one request (specification            *)
(* SpecExtract): the rule is drawn at the start, the step applies it to a  *)
(* request.                                                                *)
(***************************************************************************)
\* Marks a header, cookie or parameter the request does not carry.
Absent == "<absent>"

\* The map of a request that carries `name` with value v, or nothing.
Carrying(name, v) == IF v = Absent THEN <<>> ELSE [n \in {name} |-> v]

RuleNames ==
  [Header |-> "X-User-ID", Cookie |-> "session_id", Query |-> "api_key", IP |-> ""]

ExtractRules ==
  { [Type |-> type, Name |-> RuleNames[type], Value |-> value,
     RateLimit |-> RateOff, Quota |-> QuotaOf(1, "Daily")] :
    type \in {"Header", "Cookie", "Query", "IP"},
    value \in {"sk-a", "sk-unknown", "anonymous", "guest", ""} }

\* X-Forwarded-For values: none, two hops, an empty first entry.
ForwardedChoices ==
  {<<>>,
   <<" ", "2", ".", "2", ",", " ", "3", ".", "3">>,
   <<",", "2", ".", "2">>}

\* X-Real-IP values: none, an address, an address with a port, a port only.
RealIPChoices ==
  {<<>>, <<"4", ".", "4">>, <<"4", ".", "4", ":", "9">>, <<":", "9">>}

ExtractRequests ==
  { [Headers |-> Carrying(RuleNames.Header, h),
     XForwardedFor |-> xff, XRealIP |-> xri, RemoteAddr |-> Addr,
     Query |-> Carrying(RuleNames.Query, q),
     Cookies |-> Carrying(RuleNames.Cookie, c)] :
    h \in {Absent, "", "sk-a", "sk-b", "anonymous"},
    c \in {Absent, "", "sk-a", "other"},
    q \in {Absent, "", "sk-a", "other"},
    xff \in ForwardedChoices,
    xri \in RealIPChoices }

InitExtract ==
  /\ now = 0
  /\ faults = {}
  /\ store = EmptyStore
  /\ rules \in {<<rule>> : rule \in ExtractRules}
  /\ resp = NoResp
  /\ deniedUntil = <<>>
  /\ tasks = <<>>
  /\ held = 0
  /\ conn = <<>>
  /\ cfg = RateOff
  /\ last = NoOp
  /\ rapid = NoRun
  /\ recent = <<>>
  /\ expired = FALSE

\* The loop body of ServeHTTP up to the test for an empty identifier.
Extract ==
  /\ resp = NoResp
  /\ \E req \in ExtractRequests :
       \E identifier \in {extractIdentifier(req, rules[1])} :
         resp' = [NoResp EXCEPT !.matched = (identifier # "")]
                 @@ [req |-> req, identifier |-> identifier]
  /\ UNCHANGED <<now, store, rules, deniedUntil, faults, limiterVars, concurrentVars>>

NextExtract == Extract

SpecExtract == InitExtract /\ [][NextExtract]_vars

(***************************************************************************)
(* Claims about extractIdentifier (specification SpecExtract).             *)
(***************************************************************************)
\* The rule has been applied to a request.
Extracted == "req" \in DOMAIN resp

\* The request carries the name of the rule in the given map.
Has(carried) == rules[1].Name \in DOMAIN carried

\* C17 as stated: a Header rule matches a request that has the header iff
\* the header value equals the configured value, with that value as the
\* identifier; it matches a request without the header iff the configured
\* value is sk-unknown, anonymous or guest, with the configured value as the
\* identifier.
C17_HeaderPresentExact ==
  (Extracted /\ rules[1].Type = "Header") =>
    IF Has(resp.req.Headers)
    THEN /\ resp.matched <=> resp.req.Headers[rules[1].Name] = rules[1].Value
         /\ resp.matched => resp.identifier = resp.req.Headers[rules[1].Name]
    ELSE /\ resp.matched <=> rules[1].Value \in {"sk-unknown", "anonymous", "guest"}
         /\ resp.matched => resp.identifier = rules[1].Value

\* C17: a Header rule matches a request whose header has a non-empty value
\* iff that value equals the configured value, with that value as the
\* identifier; it matches a request whose header is absent or empty iff the
\* configured value is sk-unknown, anonymous or guest, with the configured
\* value as the identifier.
C17_HeaderNonEmptyExact ==
  (Extracted /\ rules[1].Type = "Header") =>
    IF Has(resp.req.Headers) /\ resp.req.Headers[rules[1].Name] # ""
    THEN /\ resp.matched <=> resp.req.Headers[rules[1].Name] = rules[1].Value
         /\ resp.matched => resp.identifier = resp.req.Headers[rules[1].Name]
    ELSE /\ resp.matched <=> rules[1].Value \in {"sk-unknown", "anonymous", "guest"}
         /\ resp.matched => resp.identifier = rules[1].Value

\* A request whose header is present and empty matched a fallback rule.
C17_Witness ==
  /\ Extracted
  /\ rules[1].Type = "Header"
  /\ rules[1].Value = "anonymous"
  /\ Has(resp.req.Headers)
  /\ resp.req.Headers[rules[1].Name] = ""
  /\ resp.matched
  /\ resp.identifier = "anonymous"

C20_CookieQueryExactMatch ==
  (Extracted /\ resp.matched) =>
    /\ rules[1].Type = "Cookie" =>
         (Has(resp.req.Cookies) /\ resp.req.Cookies[rules[1].Name] = rules[1].Value)
    /\ rules[1].Type = "Query" =>
         (Has(resp.req.Query) /\ resp.req.Query[rules[1].Name] = rules[1].Value)

(***************************************************************************)
(* Claims about requests no rule matches (specification Spec).             *)
(***************************************************************************)
\* No configured rule yields an identifier for the request.
NoRuleMatches(req) ==
  \A i \in 1..Len(rules) : extractIdentifier(req, rules[i]) = ""

\* C18: a request that no configured rule matches is answered 403 with
\* Content-Type application/json, the downstream handler is not called, no
\* limiter or quota operation is called and the store is left as it was.
C18_NoMatchForbidden ==
  [][("req" \in DOMAIN resp' /\ NoRuleMatches(resp'.req)) =>
       /\ ~resp'.matched
       /\ resp'.status = 403
       /\ resp'.contentType = "application/json"
       /\ ~resp'.forwarded
       /\ resp'.calls = <<"WriteStatus">>
       /\ store' = store]_vars

\* A request no rule matches was refused while the store held state of
\* earlier requests.
C18_Witness ==
  /\ "req" \in DOMAIN resp
  /\ NoRuleMatches(resp.req)
  /\ resp.status = 403
  /\ ~resp.forwarded
  /\ store # EmptyStore

(***************************************************************************)
(* Further claims about extractIdentifier (specification SpecExtract).     *)
(***************************************************************************)
\* C21: a Header rule (with any non-empty configured value) yields an
\* identifier for every request: the value of the header when the request
\* has one, the configured value otherwise; so it matches every request.
C21_HeaderValueOrDefault ==
  (Extracted /\ rules[1].Type = "Header" /\ rules[1].Value # "") =>
    /\ resp.identifier = IF Has(resp.req.Headers) /\ resp.req.Headers[rules[1].Name] # ""
                         THEN resp.req.Headers[rules[1].Name]
                         ELSE rules[1].Value
    /\ resp.matched

\* The text before the last ":" of cs, all of cs without one.
BeforeLastColon(cs) ==
  IF \E i \in 1..Len(cs) : cs[i] = ":"
  THEN SubSeq(cs, 1, (CHOOSE i \in 1..Len(cs) :
                        cs[i] = ":" /\ \A j \in (i + 1)..Len(cs) : cs[j] # ":") - 1)
  ELSE cs

\* C22: for an IP rule the identifier is X-Real-IP if present, else the
\* first entry of X-Forwarded-For (blanks around it dropped) if present,
\* else the remote address, each cut at its last ":"; the rule matches
\* every request.
C22_IPAlwaysMatches ==
  (Extracted /\ rules[1].Type = "IP") =>
    /\ resp.identifier =
         Str(BeforeLastColon(
               IF resp.req.XRealIP # <<>> THEN resp.req.XRealIP
               ELSE IF resp.req.XForwardedFor # <<>>
                    THEN TrimSpace(SplitFirst(resp.req.XForwardedFor, ","))
                    ELSE resp.req.RemoteAddr))
    /\ resp.matched

(***************************************************************************)
(* A bucket left alone (specification SpecIdle): a bucket is saved at time *)
(* 0, then the clock runs and the bucket is only observed.                 *)
(***************************************************************************)
\* The tokens a save can leave: what remains after a token was taken, or
\* the full bucket Reset writes.
SavedTokens(c) == 0..((c.Burst - 1) * c.Period) \cup {c.Burst * c.Period}

\* The stores the idle time can begin with; where the save fails there is
\* no bucket and getBucket makes a full one.
IdleStarts(c) ==
  { The({ [held |-> IF saved.err THEN c.Burst * c.Period ELSE tokens,
           store |-> saved.store] :
          saved \in {saveBucket(EmptyStore, GetRateLimitKey(LimiterId),
                       [createNewBucket(c, 0) EXCEPT !.Tokens = tokens], 0)} }) :
    tokens \in SavedTokens(c) }

InitIdle ==
  /\ now = 0
  /\ faults = {}
  /\ cfg \in LimiterConfigs
  /\ \E start \in IdleStarts(cfg) : held = start.held /\ store = start.store
  /\ last = NoOp
  /\ rapid = NoRun
  /\ recent = <<>>
  /\ expired = FALSE
  /\ rules = <<>>
  /\ resp = NoResp
  /\ deniedUntil = <<>>
  /\ tasks = <<>>
  /\ conn = <<>>

NextIdle == Tick \/ DoGetCurrentTokens

SpecIdle == InitIdle /\ [][NextIdle]_vars

(***************************************************************************)
(* Claims about a bucket left alone (specification SpecIdle).              *)
(***************************************************************************)
\* The bucket has just been observed after exactly one period without a
\* call.
ObservedAfterPeriod == last.op = "GetCurrentTokens" /\ now = cfg.Period

\* C23 as stated: a bucket observed after one period without a call is
\* full, whatever it held before.
C23_FullAfterPeriod ==
  ObservedAfterPeriod => last.tokens = cfg.Burst * cfg.Period

\* C23: a bucket observed after one period without a call holds what it
\* held before plus `rate` tokens, capped at burst.
C23_RateAddedAfterPeriod ==
  ObservedAfterPeriod =>
    last.tokens = Min(held + cfg.Rate * cfg.Period, cfg.Burst * cfg.Period)

\* An empty stored bucket with rate < burst was observed one period later
\* and held `rate` tokens, fewer than burst.
C23_Witness ==
  /\ ObservedAfterPeriod
  /\ held = 0
  /\ TokensKey \in DOMAIN store
  /\ cfg.Rate < cfg.Burst
  /\ last.tokens = cfg.Rate * cfg.Period

(***************************************************************************)
(* Claims about the weekly window and the responses (specification Spec).  *)
(***************************************************************************)
\* The first Monday 00:00 after t.
NextMonday(t) ==
  CHOOSE u \in {(DayIndex(t) + n) * Day : n \in 1..7} : Weekday(u) = 1

\* C24: the reset time reported for a Weekly quota and the expiry of the
\* weekly counter are the next Monday 00:00, the moment the weekly label
\* changes.
C24_WeeklyResetsOnMonday ==
  /\ GetQuotaPeriodKey("Weekly", NextMonday(now)) # GetQuotaPeriodKey("Weekly", NextMonday(now) - 1)
  /\ ("quota" \in DOMAIN resp /\ resp.quota # Nil /\ resp.quota.Period = "Weekly") =>
       resp.quota.ResetTime = NextMonday(now)
  /\ \A p \in CountedPairs :
       LET key == GetQuotaKey(p.identifier, GetQuotaPeriodKey("Weekly", now))
       IN (p.rule.Quota.Period = "Weekly" /\ Live(store, key, now)) =>
            store[key].exp = NextMonday(now)

(***************************************************************************)
(* Denials under every configured status and body (specification          *)
(* SpecDeny): one rule with a limiter of burst 1, one fallback rule with a *)
(* quota of 1, each with a status and a body drawn at the start; requests  *)
(* follow one another at one instant.                                      *)
(***************************************************************************)
\* ResponseReachedLimitCode: unset, a custom status, a negative number.
DenyCodes == {0, 402, -1}

\* ResponseReachedLimitBody: unset, JSON, plain text.
DenyBodies == {"", "{\"error\": \"quota\"}", "slow down"}

DenyRules ==
  { <<HeaderRule("sk-a",
                 [RateHalfDay EXCEPT !.Burst = 1, !.Code = rc, !.Body = rb], QuotaOff),
      HeaderRule("anonymous", RateOff,
                 [QuotaOf(1, "Daily") EXCEPT !.Code = qc, !.Body = qb])>> :
    rc \in DenyCodes, rb \in DenyBodies, qc \in DenyCodes, qb \in DenyBodies }

InitDeny ==
  /\ now = 0
  /\ faults = {}
  /\ store = EmptyStore
  /\ rules \in DenyRules
  /\ resp = NoResp
  /\ deniedUntil = <<>>
  /\ tasks = <<>>
  /\ held = 0
  /\ conn = <<>>
  /\ cfg = RateOff
  /\ last = NoOp
  /\ rapid = NoRun
  /\ recent = <<>>
  /\ expired = FALSE

NextDeny == Serve

SpecDeny == InitDeny /\ [][NextDeny]_vars

(***************************************************************************)
(* Claims about denials (specification SpecDeny).                          *)
(***************************************************************************)
\* The last request matched a rule and was denied.
Denied == "req" \in DOMAIN resp /\ resp.matched /\ ~resp.allowed

\* The settings of the feature that denied the last request.
DenyingFeature ==
  IF resp.reason = "Rate limit exceeded"
  THEN Managers(rules)[resp.key].RateLimit
  ELSE Managers(rules)[resp.key].Quota

\* C25: a denial carries the configured status of the denying feature when
\* that is > 0, else 429 for the limiter and 403 for the quota; its body is
\* the configured body when one is set, else the reason.
C25_DenyStatusAndBody ==
  Denied =>
    /\ resp.reason \in {"Rate limit exceeded", "Quota exceeded"}
    /\ resp.status = IF DenyingFeature.Code > 0 THEN DenyingFeature.Code
                     ELSE IF resp.reason = "Rate limit exceeded" THEN 429 ELSE 403
    /\ resp.body = IF DenyingFeature.Body # "" THEN DenyingFeature.Body ELSE resp.reason

(***************************************************************************)
(* Claims about the quota headers (specification Spec).                    *)
(***************************************************************************)
\* C26: on a forwarded request with quota enabled, X-Quota-Used is the
\* counter after the increment of this request and X-Quota-Remaining is the
\* limit less that.
C26_QuotaHeadersCountThisRequest ==
  ("req" \in DOMAIN resp /\ resp.forwarded /\ resp.quotaEnabled) =>
    LET q    == Managers(rules)[resp.key].Quota
        used == QuotaCounter(store, resp.identifier, q, now)
    IN /\ resp.headers["X-Quota-Used"] = ToString(used)
       /\ resp.headers["X-Quota-Remaining"] = ToString(q.Limit - used)

(***************************************************************************)
(* The limiter headers (specification SpecHeaders): one rule with a        *)
(* limiter only, its rate, burst and period drawn at the start.            *)
(***************************************************************************)
\* Period: "250ms", "1s", "12h".
HeaderPeriods == {1, Second, Step}

HeaderRules ==
  { <<HeaderRule("sk-a",
                 [RateHalfDay EXCEPT !.Rate = r, !.Burst = b, !.Period = p], QuotaOff)>> :
    r \in 1..MaxRate, b \in 1..MaxBurst, p \in HeaderPeriods }

InitHeaders ==
  /\ now = 0
  /\ faults = {}
  /\ store = EmptyStore
  /\ rules \in HeaderRules
  /\ resp = NoResp
  /\ deniedUntil = <<>>
  /\ tasks = <<>>
  /\ held = 0
  /\ conn = <<>>
  /\ cfg = RateOff
  /\ last = NoOp
  /\ rapid = NoRun
  /\ recent = <<>>
  /\ expired = FALSE

NextHeaders == Advance \/ Serve

SpecHeaders == InitHeaders /\ [][NextHeaders]_vars

(***************************************************************************)
(* Claims about the limiter headers (specification SpecHeaders).           *)
(***************************************************************************)
\* C27: on a forwarded request with rate limiting enabled X-RateLimit-Limit
\* is the rate of the rule and X-RateLimit-Remaining is the whole number of
\* tokens the bucket, refilled to the time of the request, holds less the
\* token of this request.
C27_RateHeadersCountThisRequest ==
  [][("req" \in DOMAIN resp' /\ resp'.forwarded /\ resp'.rateEnabled) =>
       LET c      == Managers(rules)[resp'.key].RateLimit
           before == refillBucket(getBucket(store, GetRateLimitKey(resp'.identifier),
                                            c, now), now).Tokens
       IN /\ resp'.headers["X-RateLimit-Limit"] = ToString(c.Rate)
          /\ resp'.headers["X-RateLimit-Remaining"]
               = ToString((before - c.Period) \div c.Period)]_vars

(***************************************************************************)
(* Construction of the middleware (specification SpecValidate): the        *)
(* configuration is drawn at the start and New runs once.  The periods of  *)
(* a configuration are the strings of the file, parsed by New.             *)
(***************************************************************************)
\* time.ParseDuration on the period strings drawn: the duration in the time
\* unit of the model, or an error.
ParseDuration(text) ==
  IF text = "1s" THEN [err |-> FALSE, d |-> Second]
  ELSE IF text = "1m" THEN [err |-> FALSE, d |-> 60 * Second]
  ELSE IF text = "0s" THEN [err |-> FALSE, d |-> 0]
  ELSE IF text = "-1s" THEN [err |-> FALSE, d |-> 0 - Second]
  ELSE [err |-> TRUE, d |-> 0]

ParseRateLimitPeriod(rlc) ==
  IF rlc.Period = "" THEN [err |-> FALSE, d |-> 60 * Second] ELSE ParseDuration(rlc.Period)

ParseQuotaPeriod(qs) ==
  CASE qs.Period = "Daily" -> [err |-> FALSE, d |-> Day]
    [] qs.Period = "Weekly" -> [err |-> FALSE, d |-> 7 * Day]
    [] qs.Period = "Monthly" -> [err |-> FALSE, d |-> 30 * Day]
    [] OTHER -> [err |-> TRUE, d |-> 0]

\* IdentifierConfig.Validate: the error returned, "" for nil.
Validate(ic) ==
  IF ic.Type = "" THEN "identifier type is required"
  ELSE IF ic.Type = "Header" /\ ic.Name = ""
    THEN "header name is required for header-based identification"
  ELSE IF ~ic.RateLimit.Enabled /\ ~ic.Quota.Enabled
    THEN "at least one feature (rate limit or quota) must be enabled"
  ELSE IF ic.RateLimit.Enabled /\ ic.RateLimit.Rate <= 0
    THEN "rate limit rate must be positive when rate limiting is enabled"
  ELSE IF ic.RateLimit.Enabled /\ ic.RateLimit.Burst <= 0
    THEN "rate limit burst must be positive when rate limiting is enabled"
  ELSE IF ic.RateLimit.Enabled /\ ParseRateLimitPeriod(ic.RateLimit).err
    THEN "invalid rate limit period"
  ELSE IF ic.Quota.Enabled /\ ic.Quota.Limit <= 0
    THEN "quota limit must be positive when quota is enabled"
  ELSE IF ic.Quota.Enabled /\ ParseQuotaPeriod(ic.Quota).err
    THEN "invalid quota period"
  ELSE ""

\* New: "ok" when a handler is returned, "error" when an error is returned,
\* "panic" when the construction of the client panics.
New(config, c) ==
  IF config.Address = "" THEN "error"
  ELSE IF Len(config.Identifiers) = 0 THEN "error"
  ELSE LET client == NewRedisClient(c)
       IN IF client # "ok" THEN client
          ELSE IF \E i \in 1..Len(config.Identifiers) : Validate(config.Identifiers[i]) # ""
               THEN "error"
               ELSE "ok"

ValidateRateLimits ==
  [Enabled : BOOLEAN, Rate : {0, 1}, Burst : {0, 1}, Period : {"", "1s", "0s", "-1s", "soon"}]

ValidateQuotas == [Enabled : BOOLEAN, Limit : {0, 1}, Period : {"Daily", "Yearly"}]

ValidateRules ==
  [Type : {"", "Header", "Cookie", "Query", "IP"}, Name : {"", "X-User-ID"},
   Value : {"sk-a"}, RateLimit : ValidateRateLimits, Quota : ValidateQuotas]

ValidRule ==
  [Type |-> "IP", Name |-> "", Value |-> "",
   RateLimit |-> [Enabled |-> TRUE, Rate |-> 1, Burst |-> 1, Period |-> "1m"],
   Quota |-> [Enabled |-> FALSE, Limit |-> 0, Period |-> ""]]

ValidateIdentifiers ==
  {<<>>} \cup {<<r>> : r \in ValidateRules} \cup {<<ValidRule, r>> : r \in ValidateRules}

InitValidate ==
  /\ now = 0
  /\ faults = {}
  /\ store = EmptyStore
  /\ rules \in [Address : {"", "redis:6379"}, Identifiers : ValidateIdentifiers]
  /\ resp = NoResp
  /\ deniedUntil = <<>>
  /\ tasks = <<>>
  /\ held = 0
  /\ conn \in [dial : BOOLEAN, password : {""}, db : {0}, auth : {PlusOK},
               select : {PlusOK}, ping : {PlusPONG, Closed}, result : {"none"}]
  /\ cfg = RateOff
  /\ last = NoOp
  /\ rapid = NoRun
  /\ recent = <<>>
  /\ expired = FALSE

Build ==
  /\ conn.result = "none"
  /\ conn' = [conn EXCEPT !.result = New(rules, conn)]
  /\ UNCHANGED <<now, store, tasks, held, limiterVars, middlewareVars>>

NextValidate == Build

SpecValidate == InitValidate /\ [][NextValidate]_vars

(***************************************************************************)
(* Claims about the construction (specification SpecValidate).             *)
(***************************************************************************)
\* C28: a configuration that yields a running middleware has no rule with
\* neither feature enabled and no Header, Cookie or Query rule with an empty
\* field name.
C28_InvalidRuleNeverRuns ==
  conn.result = "ok" =>
    \A i \in 1..Len(rules.Identifiers) :
      LET ic == rules.Identifiers[i]
      IN /\ ic.RateLimit.Enabled \/ ic.Quota.Enabled
         /\ ic.Type \in {"Header", "Cookie", "Query"} => ic.Name # ""

(***************************************************************************)
(* A request over a store that may stop replying (specifications SpecStall *)
(* and SpecStallLive).  The request task issues the commands of a rule     *)
(* with both features one after the other; each command is written to the  *)
(* connection and its reply is read with a blocking read.                  *)
(***************************************************************************)
MaxRequests == 2

\* The store commands of one request, in the order ServeHTTP issues them.
Calls ==
  <<[op |-> "Allow", command |-> "GET"], [op |-> "Allow", command |-> "GET"],
    [op |-> "Allow", command |-> "SETEX"], [op |-> "Allow", command |-> "SETEX"],
    [op |-> "GetLimitInfo", command |-> "GET"], [op |-> "GetLimitInfo", command |-> "GET"],
    [op |-> "CheckQuota", command |-> "GET"],
    [op |-> "ConsumeQuota", command |-> "INCRBY"],
    [op |-> "ConsumeQuota", command |-> "EXPIRE"]>>

\* The first call after the operation of call i, Len(Calls) + 1 when there
\* is none: where the task goes on when the operation returns.
AfterOp(i) ==
  IF \E j \in (i + 1)..Len(Calls) : Calls[j].op # Calls[i].op
  THEN CHOOSE j \in (i + 1)..Len(Calls) :
         /\ Calls[j].op # Calls[i].op
         /\ \A k \in (i + 1)..(j - 1) : Calls[k].op = Calls[i].op
  ELSE Len(Calls) + 1

IdleTask == [pc |-> "idle", at |-> 0, allowed |-> TRUE, outcome |-> "none", served |-> 0]

InitStall ==
  /\ now = 0
  /\ faults = {}
  /\ store = EmptyStore
  /\ rules = <<>>
  /\ resp = NoResp
  /\ deniedUntil = <<>>
  /\ tasks = IdleTask
  /\ held = 0
  /\ conn = [stalled |-> FALSE, reply |-> "none"]
  /\ cfg = RateOff
  /\ last = NoOp
  /\ rapid = NoRun
  /\ recent = <<>>
  /\ expired = FALSE

StallUnchanged == <<now, store, held, limiterVars, middlewareVars>>

\* ServeHTTP is entered for a request.
Receive ==
  /\ tasks.pc = "idle"
  /\ tasks.served < MaxRequests
  /\ tasks' = [tasks EXCEPT !.pc = "write", !.at = 1, !.allowed = TRUE, !.outcome = "none"]
  /\ UNCHANGED <<conn, StallUnchanged>>

\* writeCommand: the command is written to the connection.
IssueCommand ==
  /\ tasks.pc = "write"
  /\ tasks' = [tasks EXCEPT !.pc = "read"]
  /\ UNCHANGED <<conn, StallUnchanged>>

\* The store answers the command: a reply, or an error reply.
StoreReplies ==
  /\ tasks.pc = "read"
  /\ ~conn.stalled
  /\ conn.reply = "none"
  /\ \E r \in {"ok", "error"} : conn' = [conn EXCEPT !.reply = r]
  /\ UNCHANGED <<tasks, StallUnchanged>>

\* The store stops replying; the connection stays open.
Stall ==
  /\ ~conn.stalled
  /\ conn' = [conn EXCEPT !.stalled = TRUE]
  /\ UNCHANGED <<tasks, StallUnchanged>>

\* Where the task goes on from call i: the next call, or the response.
GoOn(i, allowed) ==
  IF i > Len(Calls) THEN [tasks EXCEPT !.pc = "respond", !.outcome = "forwarded"]
  ELSE IF ~allowed /\ Calls[i].op \notin {"Allow", "GetLimitInfo"}
    THEN [tasks EXCEPT !.pc = "respond", !.outcome = "denied", !.allowed = FALSE]
  ELSE [tasks EXCEPT !.pc = "write", !.at = i, !.allowed = allowed]

\* readResponse: reader.ReadString returns once a line of the reply is
\* there; no deadline is set on the read.  An error reply ends the operation
\* with an error and the request goes on as allowed; the reply that ends
\* Allow or CheckQuota says whether the request is allowed.
ReadReply ==
  /\ tasks.pc = "read"
  /\ conn.reply # "none"
  /\ conn' = [conn EXCEPT !.reply = "none"]
  /\ LET i == tasks.at
     IN IF conn.reply = "error"
        THEN tasks' = GoOn(AfterOp(i), tasks.allowed)
        ELSE IF AfterOp(i) = i + 1 /\ Calls[i].op \in {"Allow", "CheckQuota"}
          THEN \E allowed \in BOOLEAN : tasks' = GoOn(i + 1, allowed)
        ELSE tasks' = GoOn(i + 1, tasks.allowed)
  /\ UNCHANGED StallUnchanged

\* The response is written: next.ServeHTTP, or the denial.
Respond ==
  /\ tasks.pc = "respond"
  /\ tasks' = [tasks EXCEPT !.pc = "idle", !.served = @ + 1]
  /\ UNCHANGED <<conn, StallUnchanged>>

NextStall == Receive \/ IssueCommand \/ StoreReplies \/ Stall \/ ReadReply \/ Respond

SpecStall == InitStall /\ [][NextStall]_vars

\* The task runs when it can, and a store that has not stalled replies.
SpecStallLive ==
  /\ SpecStall
  /\ WF_vars(IssueCommand)
  /\ WF_vars(ReadReply)
  /\ WF_vars(Respond)
  /\ WF_vars(StoreReplies)

(***************************************************************************)
(* Claims about a stalled store (specification SpecStallLive).             *)
(***************************************************************************)
\* C29: a request that was received eventually gets its response, forwarded
\* or denied, also when the store stops replying to a command.
C29_RequestAnswered == (tasks.pc # "idle") ~> (tasks.pc = "idle")

(***************************************************************************)
(* Requests whose context is cancelled (specification SpecCancel).  `held` *)
(* records where the context of the last request was cancelled.            *)
(***************************************************************************)
\* The context is not cancelled, or is cancelled before Allow saves the
\* bucket, or after Allow returned and before ConsumeQuota.
CancelPoints == {"live", "before-write", "before-consume"}

InitCancel ==
  /\ now = 0
  /\ faults = {}
  /\ store = EmptyStore
  /\ rules = FaultyRules
  /\ resp = NoResp
  /\ deniedUntil = <<>>
  /\ tasks = <<>>
  /\ held = "live"
  /\ conn = <<>>
  /\ cfg = RateOff
  /\ last = NoOp
  /\ rapid = NoRun
  /\ recent = <<>>
  /\ expired = FALSE

\* One request served to the end, its context cancelled at some point or
\* not at all.  checkIdentifier and ServeHTTP hand req.Context() to Allow,
\* CheckQuota and ConsumeQuota, which hand it to the client; no function
\* reads it, so the request is served as ServeHTTP serves any request.
ServeContext ==
  \E req \in Requests, order \in RangeOrders(Managers(rules)), cancelled \in CancelPoints :
    \E r \in {ServeHTTP(store, rules, req, order, now)} :
       /\ \A p \in CountedPairs :
            QuotaCounter(r.store, p.identifier, p.rule.Quota, now) <= MaxUsed
       /\ store' = r.store
       /\ resp' = r.resp
       /\ held' = cancelled
       /\ deniedUntil' =
            IF r.resp.matched /\ ~r.resp.allowed /\ r.resp.reason = "Quota exceeded"
            THEN (r.resp.identifier :> r.resp.quota.ResetTime) @@ deniedUntil
            ELSE deniedUntil
       /\ UNCHANGED <<now, rules, faults, limiterVars, tasks, conn>>

NextCancel == AdvanceFaulty \/ ServeContext

SpecCancel == InitCancel /\ [][NextCancel]_vars

(***************************************************************************)
(* Claims about cancelled requests (specification SpecCancel).             *)
(***************************************************************************)
\* C30: a request whose context is cancelled before the limiter writes
\* leaves the stored bucket of its identifier as it was, and a request
\* whose context is cancelled after the limiter accepted it and before the
\* quota is consumed leaves the counter of its identifier as it was.
C30_CancelledRequestWritesNothing ==
  [][(now' = now /\ resp'.matched) =>
       LET rule == Managers(rules)[resp'.key]
           key  == GetRateLimitKey(resp'.identifier)
       IN /\ (held' = "before-write" /\ rule.RateLimit.Enabled) =>
               SameEntries(store, store', {key \o ":tokens", key \o ":last_refill"})
          /\ (/\ held' = "before-consume"
              /\ rule.RateLimit.Enabled
              /\ rule.Quota.Enabled
              /\ Allow(store, resp'.identifier, rule.RateLimit, now).res = "Allowed") =>
               QuotaCounter(store', resp'.identifier, rule.Quota, now)
                 = QuotaCounter(store, resp'.identifier, rule.Quota, now)]_vars

(***************************************************************************)
(* Concurrent requests on one quota (specification SpecQuotaRace).  Each   *)
(* request task runs CheckQuota (a GET), then ConsumeQuota (INCRBY and,    *)
(* for a new key, EXPIRE), then next.ServeHTTP; nothing holds a lock       *)
(* between the steps.  The clock stands still inside one window.           *)
(***************************************************************************)
\* The rule of the racing requests: a quota only, limit 1 or 2 a day.
QuotaRaceRules == { <<HeaderRule("sk-a", RateOff, QuotaOf(limit, "Daily"))>> : limit \in 1..2 }

\* The store after k earlier requests of the identifier were served alone.
RECURSIVE ConsumedStore(_, _)
ConsumedStore(q, k) ==
  IF k = 0 THEN EmptyStore
  ELSE ConsumeQuota(ConsumedStore(q, k - 1), "sk-a", q, 1, 0).store

WaitingTask == [pc |-> "idle", res |-> "none"]

InitQuotaRace ==
  /\ now = 0
  /\ faults = {}
  /\ rules \in QuotaRaceRules
  /\ held \in 0..rules[1].Quota.Limit
  /\ store = ConsumedStore(rules[1].Quota, held)
  /\ tasks = [p \in Tasks |-> WaitingTask]
  /\ conn = <<>>
  /\ cfg = RateOff
  /\ last = NoOp
  /\ rapid = NoRun
  /\ recent = <<>>
  /\ expired = FALSE
  /\ resp = NoResp
  /\ deniedUntil = <<>>

\* checkIdentifier: CheckQuota reads the counter and allows or denies.
QuotaCheck(p) ==
  /\ tasks[p].pc = "idle"
  /\ tasks' = [tasks EXCEPT ![p] =
       IF CheckQuota(store, "sk-a", rules[1].Quota, now).allowed
       THEN [pc |-> "checked", res |-> "none"]
       ELSE [pc |-> "done", res |-> "denied"]]
  /\ UNCHANGED <<now, store, held, conn, limiterVars, middlewareVars>>

\* ServeHTTP after the check: ConsumeQuota, its error only logged.
QuotaConsume(p) ==
  /\ tasks[p].pc = "checked"
  /\ store' = ConsumeQuota(store, "sk-a", rules[1].Quota, 1, now).store
  /\ tasks' = [tasks EXCEPT ![p] = [pc |-> "consumed", res |-> "none"]]
  /\ UNCHANGED <<now, held, conn, limiterVars, middlewareVars>>

\* next.ServeHTTP
QuotaForward(p) ==
  /\ tasks[p].pc = "consumed"
  /\ tasks' = [tasks EXCEPT ![p] = [pc |-> "done", res |-> "forwarded"]]
  /\ UNCHANGED <<now, store, held, conn, limiterVars, middlewareVars>>

NextQuotaRace == \E p \in Tasks : QuotaCheck(p) \/ QuotaConsume(p) \/ QuotaForward(p)

SpecQuotaRace == InitQuotaRace /\ [][NextQuotaRace]_vars

(***************************************************************************)
(* Claims about concurrent requests on one quota (SpecQuotaRace).          *)
(***************************************************************************)
ForwardedRequests == Cardinality({p \in Tasks : tasks[p].res = "forwarded"})

\* C31: however the concurrent requests of one identifier interleave, the
\* requests forwarded in the window (those served before and those of the
\* tasks) and the stored counter of the window never exceed the limit.
C31_QuotaNeverExceeded ==
  /\ held + ForwardedRequests <= rules[1].Quota.Limit
  /\ QuotaCounter(store, "sk-a", rules[1].Quota, now) <= rules[1].Quota.Limit

(***************************************************************************)
(* The limiter over a store whose reads fail (specification                *)
(* SpecReadFault): Allow calls, the clock, and the commands that fail      *)
(* changing between calls.                                                 *)
(***************************************************************************)
\* Nothing fails; every GET fails; every GET and every SETEX fails.
ReadFaultSets == {{}, {"GET"}, {"GET", "SETEX"}}

InitReadFault ==
  /\ now = 0
  /\ faults \in ReadFaultSets
  /\ store = EmptyStore
  /\ cfg \in LimiterConfigs
  /\ last = NoOp
  /\ rapid = NoRun
  /\ recent = <<>>
  /\ expired = FALSE
  /\ rules = <<>>
  /\ resp = NoResp
  /\ deniedUntil = <<>>
  /\ tasks = <<>>
  /\ held = 0
  /\ conn = <<>>

\* The store starts or stops failing commands.
ReadFault ==
  /\ \E f \in ReadFaultSets : f # faults /\ faults' = f
  /\ last' = NoOp
  /\ UNCHANGED <<now, store, cfg, rapid, recent, expired, rules, resp, deniedUntil,
                 concurrentVars>>

NextReadFault == Tick \/ DoAllowOnce \/ ReadFault

SpecReadFault == InitReadFault /\ [][NextReadFault]_vars

(***************************************************************************)
(* Claims about failing reads (specification SpecReadFault).               *)
(***************************************************************************)
\* The bucket stored for the limiter's identifier, read past any fault.
StoredBucket ==
  LET key == GetRateLimitKey(LimiterId)
  IN IF (key \o ":tokens") \in DOMAIN store /\ (key \o ":last_refill") \in DOMAIN store
     THEN [stored |-> TRUE, Tokens |-> store[key \o ":tokens"].val,
           LastRefill |-> store[key \o ":last_refill"].val]
     ELSE [stored |-> FALSE, Tokens |-> 0, LastRefill |-> 0]

MaxRaceTicks == 2

TickRace == now < MaxRaceTicks * TickLen /\ Tick

\* Two of the tasks call Allow; the others stay idle.
NextRefillRace == TickRace \/ \E p \in 1..2 : AllowRead(p) \/ AllowWrite(p)

SpecRefillRace == InitRace /\ [][NextRefillRace]_vars

(***************************************************************************)
(* Claims about the stored last_refill.                                    *)
(***************************************************************************)
LastRefillKey == GetRateLimitKey(LimiterId) \o ":last_refill"

\* C33: a last_refill written to the store is at or after the one it
\* replaces.
C33_LastRefillAdvances ==
  [][(LastRefillKey \in DOMAIN store /\ LastRefillKey \in DOMAIN store') =>
       store'[LastRefillKey].val >= store[LastRefillKey].val]_vars

(***************************************************************************)
(* The limiter and the quota manager of one identifier, every operation    *)
(* (specification SpecOperations).                                         *)
(***************************************************************************)
\* The quota of the identifier: 1 a day.
OperationsQuota == QuotaOf(1, "Daily")

InitOperations ==
  /\ now = 0
  /\ faults = {}
  /\ store = EmptyStore
  /\ cfg \in LimiterConfigs
  /\ last = NoOp
  /\ rapid = NoRun
  /\ recent = <<>>
  /\ expired = FALSE
  /\ rules = <<HeaderRule(LimiterId, cfg, OperationsQuota)>>
  /\ resp = NoResp
  /\ deniedUntil = <<>>
  /\ tasks = <<>>
  /\ held = 0
  /\ conn = <<>>

QuotaStep(op, res, used, s) ==
  /\ store' = s
  /\ last' = [op |-> op, res |-> res, refilled |-> FALSE, tokens |-> used, fresh |-> FALSE]
  /\ UNCHANGED <<now, cfg, rapid, recent, expired, middlewareVars, concurrentVars>>

DoCheckQuota ==
  \E r \in {CheckQuota(store, LimiterId, OperationsQuota, now)} :
    QuotaStep("CheckQuota", IF r.allowed THEN "Allowed" ELSE "Denied", r.info.Used, store)

DoGetQuotaInfo ==
  \E info \in {GetQuotaInfo(store, LimiterId, OperationsQuota, now)} :
    QuotaStep("GetQuotaInfo", "Ok", info.Used, store)

DoConsumeQuota ==
  \E r \in {ConsumeQuota(store, LimiterId, OperationsQuota, 1, now)} :
    /\ QuotaCounter(r.store, LimiterId, OperationsQuota, now) <= OperationsQuota.Limit
    /\ QuotaStep("ConsumeQuota", IF r.err THEN "Error" ELSE "Ok",
                 QuotaCounter(r.store, LimiterId, OperationsQuota, now), r.store)

NextOperations == NextLimiter \/ DoCheckQuota \/ DoGetQuotaInfo \/ DoConsumeQuota

SpecOperations == InitOperations /\ [][NextOperations]_vars

(***************************************************************************)
(* Claims about the operations (specification SpecOperations).             *)
(***************************************************************************)
\* The operation that led to the next state consumed nothing: a Denied
\* Allow or AllowN, an AllowN with n <= 0 (no refill was made), or a
\* GetLimitInfo, GetCurrentTokens, CheckQuota or GetQuotaInfo call.
NothingConsumed ==
  \/ last'.op \in {"Allow", "AllowN"} /\ last'.res = "Denied"
  \/ last'.op = "AllowN" /\ ~last'.refilled
  \/ last'.op \in {"GetLimitInfo", "GetCurrentTokens", "CheckQuota", "GetQuotaInfo"}

\* C34: an operation that consumes nothing leaves the store as it was: the
\* bucket keys, the quota counters and their expiries.
C34_NoConsumeNoWrite ==
  [][(now' = now /\ NothingConsumed) => store' = store]_vars

\* An Allow was denied with a bucket and a counter in the store.
C34_Witness ==
  /\ last.op = "Allow"
  /\ last.res = "Denied"
  /\ Live(store, TokensKey, now)
  /\ QuotaCounter(store, LimiterId, OperationsQuota, now) = 1

(***************************************************************************)
(* Claims about the bucket writes (specification SpecLimiter).             *)
(***************************************************************************)
\* The operation that led to the next state called saveBucket: an Allow or
\* AllowN that found enough tokens, or a Reset.
BucketWritten ==
  \/ last'.op \in {"Allow", "AllowN"} /\ last'.refilled /\ last'.res # "Denied"
  \/ last'.op = "Reset"

\* C35: every bucket write succeeds and stores <base>:tokens and
\* <base>:last_refill with an expiry of 2 x period, whatever the period.
C35_BucketWriteStoresBothKeys ==
  [][(now' = now /\ BucketWritten) =>
       /\ last'.res # "Error"
       /\ \A k \in {TokensKey, LastRefillKey} :
            /\ k \in DOMAIN store'
            /\ store'[k].exp = now + 2 * cfg.Period]_vars

(***************************************************************************)
(* refillBucket on its own (specification SpecRefill): a bucket and a time *)
(* are drawn at the start, the bucket is refilled to that time, and the    *)
(* result is refilled to the same time.  The buckets are those getBucket   *)
(* can return for a configuration that Validate accepts; the period "0s"   *)
(* is one of them.                                                         *)
(***************************************************************************)
RefillBuckets ==
  { [Tokens |-> k, LastRefill |-> l, Rate |-> c.Rate, Burst |-> c.Burst,
     RefillPeriod |-> c.Period] :
    c \in LimiterConfigs, k \in 0..(MaxBurst * 4), l \in 0..MaxTicks }
  \cup
  { [Tokens |-> f, LastRefill |-> l, Rate |-> r, Burst |-> b, RefillPeriod |-> 0] :
    f \in (0..MaxBurst) \cup {NaN},
    l \in 0..MaxTicks, r \in 1..MaxRate, b \in 1..MaxBurst }

InitRefill ==
  /\ now \in 0..MaxTicks
  /\ faults = {}
  /\ store = EmptyStore
  /\ cfg = RateOff
  /\ last = NoOp
  /\ rapid = NoRun
  /\ recent = <<>>
  /\ expired = FALSE
  /\ rules = <<>>
  /\ resp = NoResp
  /\ deniedUntil = <<>>
  /\ tasks = <<>>
  /\ \E bucket \in RefillBuckets :
       /\ bucket.LastRefill <= now
       /\ bucket.RefillPeriod > 0 => bucket.Tokens <= bucket.Burst * bucket.RefillPeriod
       /\ held = <<bucket>>
  /\ conn = <<>>

\* bucket = rl.refillBucket(bucket, now), on the bucket refilled last.
Refill ==
  /\ Len(held) < 3
  /\ held' = Append(held, refillBucket(held[Len(held)], now))
  /\ UNCHANGED <<now, store, tasks, conn, limiterVars, middlewareVars>>

NextRefill == Refill

SpecRefill == InitRefill /\ [][NextRefill]_vars

(***************************************************************************)
(* Claims about refillBucket (specification SpecRefill).                   *)
(***************************************************************************)
\* C36: a bucket refilled to time t and refilled to t again is the bucket
\* after the first refill.
C36_RefillIdempotent == Len(held) = 3 => held[3] = held[2]

(***************************************************************************)
(* The quota counter of one identifier over several days (specification    *)
(* SpecQuotaOps): ConsumeQuota, ResetQuota and SetQuotaUsage, with EXPIRE  *)
(* working or failing.                                                     *)
(***************************************************************************)
InitQuotaOps ==
  /\ now = 0
  /\ faults \in {{}, {"EXPIRE"}}
  /\ store = EmptyStore
  /\ cfg = RateOff
  /\ last = NoOp
  /\ rapid = NoRun
  /\ recent = <<>>
  /\ expired = FALSE
  /\ rules = <<HeaderRule(LimiterId, cfg, OperationsQuota)>>
  /\ resp = NoResp
  /\ deniedUntil = <<>>
  /\ tasks = <<>>
  /\ held = 0
  /\ conn = <<>>

DoResetQuota ==
  \E r \in {ResetQuota(store, LimiterId, OperationsQuota, now)} :
    QuotaStep("ResetQuota", IF r.err THEN "Error" ELSE "Ok", 0, r.store)

DoSetQuotaUsage ==
  \E usage \in 0..OperationsQuota.Limit :
    \E r \in {SetQuotaUsage(store, LimiterId, OperationsQuota, usage, now)} :
      QuotaStep("SetQuotaUsage", IF r.err THEN "Error" ELSE "Ok", usage, r.store)

NextQuotaOps == Advance \/ DoConsumeQuota \/ DoResetQuota \/ DoSetQuotaUsage

SpecQuotaOps == InitQuotaOps /\ [][NextQuotaOps]_vars

(***************************************************************************)
(* Claims about the expiry of the counters (specification SpecQuotaOps).   *)
(***************************************************************************)
\* The key of the counter in the window that holds t.
CounterKey(t) == GetQuotaKey(LimiterId, GetQuotaPeriodKey(OperationsQuota.Period, t))

\* C37: every counter key in the store has an expiry, and the key of the
\* current window expires no later than the window ends; the key of an
\* earlier window is in the store no more.
C37_CountersExpire ==
  \A k \in DOMAIN store :
    /\ store[k].exp # NoExpiry
    /\ k = CounterKey(now)
    /\ store[k].exp <= getNextResetTime(OperationsQuota, now)

(***************************************************************************)
(* The client over a connection that is lost (specification SpecReconnect).*)
(* conn.nil says that the conn field of the client is nil, conn.alive that *)
(* the connection it holds still works, conn.reachable that the store      *)
(* accepts connections; conn.results lists the commands issued.            *)
(***************************************************************************)
MaxCommands == 4

\* The client NewRedisClient returned: connected, the store up.
InitReconnect ==
  /\ now = 0
  /\ faults = {}
  /\ store = EmptyStore
  /\ cfg = RateOff
  /\ last = NoOp
  /\ rapid = NoRun
  /\ recent = <<>>
  /\ expired = FALSE
  /\ rules = <<>>
  /\ resp = NoResp
  /\ deniedUntil = <<>>
  /\ tasks = <<>>
  /\ held = 0
  /\ conn = [nil |-> FALSE, alive |-> TRUE, reachable |-> TRUE, results |-> <<>>]

\* The store goes away: the connection is closed by the peer.  Nothing in
\* the client assigns nil to c.conn.
StoreDown ==
  /\ conn.reachable
  /\ conn' = [conn EXCEPT !.reachable = FALSE, !.alive = FALSE]
  /\ UNCHANGED <<now, store, tasks, held, limiterVars, middlewareVars>>

StoreUp ==
  /\ ~conn.reachable
  /\ conn' = [conn EXCEPT !.reachable = TRUE]
  /\ UNCHANGED <<now, store, tasks, held, limiterVars, middlewareVars>>

\* A command: writeCommand dials when c.conn is nil, then writes to the
\* connection it holds; readResponse reads the reply.
SendCommand ==
  /\ Len(conn.results) < MaxCommands
  /\ LET dialled == conn.nil /\ conn.reachable
         nil     == conn.nil /\ ~dialled
         alive   == IF dialled THEN TRUE ELSE conn.alive
         out     == IF ~nil /\ alive THEN "ok" ELSE "error"
     IN conn' = [conn EXCEPT !.nil = nil, !.alive = alive,
                   !.results = Append(@, [reachable |-> conn.reachable, out |-> out])]
  /\ UNCHANGED <<now, store, tasks, held, limiterVars, middlewareVars>>

NextReconnect == StoreDown \/ StoreUp \/ SendCommand

SpecReconnect == InitReconnect /\ [][NextReconnect]_vars

(***************************************************************************)
(* Claims about reconnection (specification SpecReconnect).                *)
(***************************************************************************)
\* C38: after a command has failed, a command issued while the store is
\* reachable succeeds.
C38_CommandsRecover ==
  \A i \in 1..Len(conn.results) :
    (conn.results[i].reachable /\ \E j \in 1..(i - 1) : conn.results[j].out = "error")
      => conn.results[i].out = "ok"

(***************************************************************************)
(* Claims about the limiter settings accepted (specification SpecValidate).*)
(***************************************************************************)
\* C39: every rule with rate limiting enabled in a configuration that
\* yields a running middleware has a positive rate, a positive burst and a
\* positive refill period.
C39_AcceptedLimiterPositive ==
  conn.result = "ok" =>
    \A i \in 1..Len(rules.Identifiers) :
      LET rl == rules.Identifiers[i].RateLimit
      IN rl.Enabled =>
           /\ rl.Rate > 0
           /\ rl.Burst > 0
           /\ ParseRateLimitPeriod(rl).d > 0

(***************************************************************************)
(* Identifiers that look like parts of keys (specification SpecKeys): one  *)
(* Query rule with a limiter and a quota, whose identifier is the value of *)
(* the query parameter, and requests that carry such values.               *)
(***************************************************************************)
\* An identifier, and identifiers that append to it what the keys append.
KeyIdentifiers == {"u1", "u1:tokens", "u1:2024-06-29"}

KeyRule ==
  [Type |-> "Query", Name |-> RuleNames.Query, Value |-> "",
   RateLimit |-> [RateHalfDay EXCEPT !.Burst = 1], Quota |-> QuotaOf(2, "Daily")]

KeyRequests ==
  { [Headers |-> <<>>, XForwardedFor |-> <<>>, XRealIP |-> <<>>, RemoteAddr |-> Addr,
     Query |-> Carrying(RuleNames.Query, v), Cookies |-> <<>>] : v \in KeyIdentifiers }

InitKeys ==
  /\ now = 0
  /\ faults = {}
  /\ store = EmptyStore
  /\ rules = <<KeyRule>>
  /\ resp = NoResp
  /\ deniedUntil = <<>>
  /\ tasks = <<>>
  /\ held = 0
  /\ conn = <<>>
  /\ cfg = RateOff
  /\ last = NoOp
  /\ rapid = NoRun
  /\ recent = <<>>
  /\ expired = FALSE

\* One request, served to the end.
ServeKeys ==
  \E req \in KeyRequests, order \in RangeOrders(Managers(rules)) :
    \E r \in {ServeHTTP(store, rules, req, order, now)} :
       /\ store' = r.store
       /\ resp' = r.resp
       /\ UNCHANGED <<now, rules, faults, deniedUntil, limiterVars, concurrentVars>>

NextKeys == AdvanceFaulty \/ ServeKeys

SpecKeys == InitKeys /\ [][NextKeys]_vars

(***************************************************************************)
(* Claims about the keys of different identifiers (specification SpecKeys).*)
(***************************************************************************)
\* The keys the requests of an identifier read or write at time t.
KeysOf(identifier, t) ==
  {GetRateLimitKey(identifier) \o ":tokens", GetRateLimitKey(identifier) \o ":last_refill",
   GetQuotaKey(identifier, GetQuotaPeriodKey(KeyRule.Quota.Period, t))}

\* What checkIdentifier decides for an identifier over store s.
Decision(s, identifier) ==
  LET r == checkIdentifier(s, KeyRule, identifier, now) IN <<r.Allowed, r.Reason>>

\* C40: two different identifiers have no key in common, and a request of
\* one identifier leaves the keys of every other identifier, and the
\* decision the next request of that identifier would get, as they were.
C40_IdentifiersShareNoKey ==
  /\ \A x, y \in KeyIdentifiers : x # y => KeysOf(x, now) \cap KeysOf(y, now) = {}
  /\ [][(now' = now /\ resp'.matched) =>
          \A y \in KeyIdentifiers \ {resp'.identifier} :
            /\ SameEntries(store, store', KeysOf(y, now))
            /\ Decision(store', y) = Decision(store, y)]_vars

\* A request of "u1:tokens" was served while "u1" is out of tokens and
\* "u1:2024-06-29" has a counter.
C40_Witness ==
  /\ resp.matched
  /\ resp.identifier = "u1:tokens"
  /\ resp.forwarded
  /\ Decision(store, "u1") = <<FALSE, "Rate limit exceeded">>
  /\ QuotaCounter(store, "u1:2024-06-29", KeyRule.Quota, now) >= 1

====
